---- MODULE Spec2Model ----
(***************************************************************************)
(* Call-session reconstruction of xdialcoreapi: the time-window grouper,   *)
(* the final-stage resolver, the detail formatters of the admin dashboards *)
(* and of call lookup, the client category normalizer and the category     *)
(* counters, the session and voice statistics queries, the per-number      *)
(* lookup and the rate helpers.  Every handler is one action; the pure     *)
(* helpers are operators.                                                  *)
(*                                                                         *)
(* Conventions.  A Python value that may be None is a sequence of length   *)
(* at most one: << >> is None, <<v>> is the value v.  Timestamps are       *)
(* integers counting ticks, TicksPerMinute ticks to the minute.  A phone   *)
(* number is a digit string; equal-length digit strings order as their     *)
(* numeric values, so a number is modelled by that value.  The id of a     *)
(* record is the primary key of its row: it is what tells two records with *)
(* equal contents apart.                                                   *)
(***************************************************************************)
EXTENDS Integers, Sequences, FiniteSets, TLC

VARIABLES
    pc,                \* "start" before the handler ran, then the handler's name
    calls,             \* the list of call dictionaries handed to the handler
    duration_minutes,  \* the grouping window, in minutes
    sessions,          \* the list of sessions the grouper returned
    latest_calls,      \* the final-stage record of every session
    calls_data,        \* the detail records a formatter built
    categories,        \* the category statistics a counter built
    params,            \* the other inputs of the handler (None when it has none)
    resolved,          \* the category the normalizer returned
    session_ids,       \* the session_id the query gave every row
    final_stages,      \* the rows of the query's final_stages
    stats,             \* the statistics a statistics handler returned
    rate,              \* the percentage a rate helper returned, in hundredths
    previous,          \* what the handler kept from before its last step (None before)
    db_pool,           \* database/db.py's global db_pool (None when there is none)
    pools,             \* every pool that was created, with whether it is closed
    tasks,             \* the position of every coroutine that uses the pool
    heap,              \* the Python objects: lists, dicts and call dictionaries
    frame              \* the handler's local names, each the address of its object

vars == <<pc, calls, duration_minutes, sessions, latest_calls, calls_data, categories,
          params, resolved, session_ids, final_stages, stats, rate, previous,
          db_pool, pools, tasks, heap, frame>>

----------------------------------------------------------------------------
(* Python values *)

None == << >>

Some(v) == <<v>>

\* x or 0, for x an optional integer: None and 0 both give 0.
OrZero(x) == IF x = None THEN 0 ELSE x[1]

Range(s) == {s[i] : i \in 1..Len(s)}

\* list(s): a new list of the same elements in the same order.
List(s) == s \o << >>

----------------------------------------------------------------------------
(* Bounds of the model *)

MaxLen == 3

MaxTime == 5

MaxWindow == 2

TicksPerMinute == 2

Numbers == {555, 777}

Times == 0..MaxTime

MaxSessionLen == 4

MaxStage == 2

MaxPipeLen == 2

MaxMinutes == 3

MaxCallId == 2

MaxCount == 9

\* stage is an optional integer >= 0.
Stages == {None} \cup {Some(n) : n \in 0..MaxStage}

\* The stages of the handlers' tables: none, 0 and 1.
TableStages == {None, Some(0), Some(1)}

\* Timestamps on whole minutes.
MinuteTimes == {m * TicksPerMinute : m \in 0..MaxMinutes}

\* Two timestamps a minute apart.
RowTimes == {0, TicksPerMinute}

----------------------------------------------------------------------------
(* Sorting and time *)

\* Python's order on tuples of integers of one length: by the first place
\* where they differ.
TupleLt(a, b) ==
    \E i \in 1..Len(a) : a[i] < b[i] /\ \A j \in 1..i - 1 : a[j] = b[j]

\* sorted(s, key=...), keys[i] being the key of s[i]: Python's sort is
\* stable, so the element at index i goes behind every element with a
\* smaller key and behind the elements with an equal key that precede it.
StableSortBy(s, keys) ==
    LET n == Len(s)
        pos(i) == 1 + Cardinality({j \in 1..n :
                        \/ TupleLt(keys[j], keys[i])
                        \/ (~TupleLt(keys[i], keys[j]) /\ j < i)})
    IN  List([k \in 1..n |-> s[CHOOSE i \in 1..n : pos(i) = k]])

\* timedelta(minutes=m), in ticks.
timedelta(minutes) == minutes * TicksPerMinute

----------------------------------------------------------------------------
(* utils/call.py: group_calls_by_session *)

\* key=lambda x: (x['number'], x['timestamp'])
NumberOnlyKey(x) == <<x.number>>

\* key=lambda x: (x['number'], x['timestamp'])
NumberTimestampKey(x) == <<x.number, x.timestamp>>

SortedCalls(cs) == StableSortBy(cs, [i \in 1..Len(cs) |-> NumberTimestampKey(cs[i])])

LastCallFirst(current_session) == current_session[1]

\* last_call = current_session[-1]
LastCall(current_session) == current_session[Len(current_session)]

SameNumberAlways(call, last_call) == TRUE

\* same_number = call['number'] == last_call['number']
SameNumber(call, last_call) == call.number = last_call.number

WithinWindowStrict(time_diff, minutes) == time_diff < timedelta(minutes)

\* within_window = time_diff <= timedelta(minutes=duration_minutes)
WithinWindow(time_diff, minutes) == time_diff <= timedelta(minutes)

CloseSessionsDropLast(sess, current_session) == sess

\* if current_session: sessions.append(current_session)
CloseSessions(sess, current_session) ==
    IF current_session # << >> THEN Append(sess, current_session) ELSE sess

\* The for loop over sorted_calls, from the record at the head of rest on.
RECURSIVE SessionWalk(_, _, _, _)
SessionWalk(rest, minutes, sess, current_session) ==
    IF rest = << >>
    THEN CloseSessions(sess, current_session)
    ELSE LET call == Head(rest) IN
         IF current_session = << >>
         THEN SessionWalk(Tail(rest), minutes, sess, <<call>>)
         ELSE LET last_call == LastCall(current_session)
                  same_number == SameNumber(call, last_call)
                  time_diff == call.timestamp - last_call.timestamp
                  within_window == WithinWindow(time_diff, minutes)
              IN  IF same_number /\ within_window
                  THEN SessionWalk(Tail(rest), minutes, sess,
                                   Append(current_session, call))
                  ELSE SessionWalk(Tail(rest), minutes,
                                   Append(sess, current_session), <<call>>)

group_calls_by_session(cs, minutes) ==
    IF cs = << >> THEN << >>
    ELSE SessionWalk(SortedCalls(cs), minutes, << >>, << >>)

----------------------------------------------------------------------------
(* The grouper on every list of calls and every window *)

\* Lists of at most MaxLen call dictionaries, in any order.
CallLists(n) ==
    {[i \in 1..n |-> [id |-> i, number |-> f[i][1], timestamp |-> f[i][2]]] :
        f \in [1..n -> Numbers \X Times]}

Init ==
    /\ pc = "start"
    /\ \E n \in 0..MaxLen : calls \in CallLists(n)
    /\ duration_minutes \in 1..MaxWindow
    /\ sessions = << >>
    /\ latest_calls = << >>
    /\ calls_data = << >>
    /\ categories = << >>
    /\ params = None
    /\ resolved = None
    /\ session_ids = << >>
    /\ final_stages = << >>
    /\ stats = << >>
    /\ rate = None
    /\ previous = None
    /\ db_pool = None
    /\ pools = << >>
    /\ tasks = << >>
    /\ heap = << >>
    /\ frame = << >>

GroupCalls ==
    /\ pc = "start"
    /\ pc' = "grouped"
    /\ sessions' = group_calls_by_session(calls, duration_minutes)
    /\ UNCHANGED <<calls, duration_minutes, latest_calls, calls_data, categories, params, resolved,
                   session_ids, final_stages, stats, rate,
                   previous, db_pool, pools, tasks, heap, frame>>

Next == GroupCalls

Spec == Init /\ [][Next]_vars

----------------------------------------------------------------------------
(* The final stage of a session: campaigns.py, export.py *)

\* key=lambda x: x['stage'] or 0
StageKey(x) == <<OrZero(x.stage)>>

\* sorted(session, key=lambda x: x['stage'] or 0)
SortedByStage(session) ==
    StableSortBy(session, [i \in 1..Len(session) |-> StageKey(session[i])])

FinalStageFirstOfMax(session) ==
    session[CHOOSE i \in 1..Len(session) :
               /\ \A j \in 1..Len(session) :
                      OrZero(session[j].stage) <= OrZero(session[i].stage)
               /\ \A j \in 1..i - 1 :
                      OrZero(session[j].stage) < OrZero(session[i].stage)]

\* session_sorted[-1]
FinalStage(session) ==
    LET session_sorted == SortedByStage(session)
    IN  session_sorted[Len(session_sorted)]

\* for session in sessions: latest_calls.append(session_sorted[-1])
LatestCalls(sess) == List([k \in 1..Len(sess) |-> FinalStage(sess[k])])

\* export.py groups with timedelta(minutes=2); the dashboards of
\* campaigns.py call the grouper with duration_minutes=2.
ExportWindowMinutes == 2

DashboardWindowMinutes == 2

\* s[start_idx:end_idx], for 0 <= start_idx.
Slice(s, start_idx, end_idx) ==
    LET last == IF end_idx < Len(s) THEN end_idx ELSE Len(s)
    IN  IF start_idx >= last THEN << >>
        ELSE [i \in 1..last - start_idx |-> s[start_idx + i]]

\* list.sort(key=..., reverse=True): descending by key, elements of equal
\* key kept in their order.
StableSortByDesc(s, keys) ==
    LET n == Len(s)
        pos(i) == 1 + Cardinality({j \in 1..n :
                        \/ TupleLt(keys[i], keys[j])
                        \/ (~TupleLt(keys[j], keys[i]) /\ j < i)})
    IN  List([k \in 1..n |-> s[CHOOSE i \in 1..n : pos(i) = k]])

\* latest_calls.sort(key=lambda x: x['timestamp'], reverse=(sort_order == 'desc'))
SortByTimestamp(cs, sort_order) ==
    LET keys == [i \in 1..Len(cs) |-> <<cs[i].timestamp>>]
    IN  IF sort_order = "desc" THEN StableSortByDesc(cs, keys)
        ELSE StableSortBy(cs, keys)

\* max(call['timestamp'] for call in session)
MaxTimestamp(session) ==
    CHOOSE t \in {session[i].timestamp : i \in 1..Len(session)} :
        \A i \in 1..Len(session) : session[i].timestamp <= t

\* timestamp.strftime('%m/%d/%Y, %H:%M:%S'): the text names the second the
\* timestamp falls in; it is modelled by the number of that second.
strftime(timestamp) == (timestamp * 60) \div TicksPerMinute

\* page and page_size when the request names neither.
DefaultPage == 1

DefaultPageSize == 50

\* CallStageDetail of campaigns.py.  id is the row the detail was built
\* from; the response does not carry it.
StageDetail(stage_call) ==
    [id |-> stage_call.id,
     stage |-> OrZero(stage_call.stage),
     timestamp |-> strftime(stage_call.timestamp)]

\* DetailedCallRecord of campaigns.py, from one session.
CampaignsDetailedCallRecord(session) ==
    LET stages_sorted == SortedByStage(session)
        latest_call == stages_sorted[Len(stages_sorted)]
        first_call == stages_sorted[1]
    IN  [id |-> latest_call.id,
         number |-> latest_call.number,
         latest_stage |-> OrZero(latest_call.stage),
         first_timestamp |-> strftime(first_call.timestamp),
         last_timestamp |-> strftime(latest_call.timestamp),
         total_stages |-> Len(stages_sorted),
         stages |-> [i \in 1..Len(stages_sorted) |-> StageDetail(stages_sorted[i])]]

\* paginated_sessions of get_admin_campaign_dashboard (campaigns.py).
PaginatedSessions(call_sessions, page, page_size) ==
    LET start_idx == (page - 1) * page_size
        end_idx == start_idx + page_size
        paginated == Slice(call_sessions, start_idx, end_idx)
    IN  StableSortByDesc(paginated,
            [k \in 1..Len(paginated) |-> <<MaxTimestamp(paginated[k])>>])

----------------------------------------------------------------------------
(* The resolver on every non-empty session *)

SessionLists(n) ==
    {[i \in 1..n |-> [id |-> i, stage |-> f[i]]] : f \in [1..n -> Stages]}

InitResolver ==
    /\ pc = "start"
    /\ calls = << >>
    /\ duration_minutes = DashboardWindowMinutes
    /\ \E n \in 1..MaxSessionLen : \E session \in SessionLists(n) :
          sessions = <<session>>
    /\ latest_calls = << >>
    /\ calls_data = << >>
    /\ categories = << >>
    /\ params = None
    /\ resolved = None
    /\ session_ids = << >>
    /\ final_stages = << >>
    /\ stats = << >>
    /\ rate = None
    /\ previous = None
    /\ db_pool = None
    /\ pools = << >>
    /\ tasks = << >>
    /\ heap = << >>
    /\ frame = << >>

ResolveSessions ==
    /\ pc = "start"
    /\ pc' = "resolved"
    /\ latest_calls' = LatestCalls(sessions)
    /\ UNCHANGED <<calls, duration_minutes, sessions, calls_data, categories, params, resolved,
                   session_ids, final_stages, stats, rate,
                   previous, db_pool, pools, tasks, heap, frame>>

NextResolver == ResolveSessions

SpecResolver == InitResolver /\ [][NextResolver]_vars

----------------------------------------------------------------------------
(* The time-window pipelines: export, client dashboard, admin dashboard *)

PipelineCallLists(n) ==
    {[i \in 1..n |-> [id |-> i, number |-> f[i][1], timestamp |-> f[i][2],
                      stage |-> f[i][3]]] :
        f \in [1..n -> Numbers \X MinuteTimes \X TableStages]}

InitPipeline ==
    /\ pc = "start"
    /\ \E n \in 0..MaxPipeLen : calls \in PipelineCallLists(n)
    /\ duration_minutes = DashboardWindowMinutes
    /\ sessions = << >>
    /\ latest_calls = << >>
    /\ calls_data = << >>
    /\ categories = << >>
    /\ params = None
    /\ resolved = None
    /\ session_ids = << >>
    /\ final_stages = << >>
    /\ stats = << >>
    /\ rate = None
    /\ previous = None
    /\ db_pool = None
    /\ pools = << >>
    /\ tasks = << >>
    /\ heap = << >>
    /\ frame = << >>

\* export.py: group_calls_by_session(calls), which returns the final stages.
ExportGroup ==
    /\ pc = "start"
    /\ pc' = "export"
    /\ sessions' = group_calls_by_session(calls, ExportWindowMinutes)
    /\ latest_calls' = LatestCalls(sessions')
    /\ UNCHANGED <<calls, duration_minutes, calls_data, categories, params, resolved,
                   session_ids, final_stages, stats, rate,
                   previous, db_pool, pools, tasks, heap, frame>>

\* campaigns.py, get_client_campaign: group, take the final stages, sort
\* them by timestamp.
ClientCampaign ==
    /\ pc = "start"
    /\ \E sort_order \in {"asc", "desc"} :
          /\ pc' = "client"
          /\ sessions' = group_calls_by_session(calls, duration_minutes)
          /\ latest_calls' = SortByTimestamp(LatestCalls(sessions'), sort_order)
    /\ UNCHANGED <<calls, duration_minutes, calls_data, categories, params, resolved,
                   session_ids, final_stages, stats, rate,
                   previous, db_pool, pools, tasks, heap, frame>>

\* campaigns.py, get_admin_campaign_dashboard.  The handler groups (622) and
\* paginates (625-630), then builds the category list: a final stage whose
\* category has no row of response_categories raises KeyError (664), and
\* every CategoryCount is built without its required transferred_count
\* (667-673), which pydantic refuses.  With no category at all it formats the
\* sessions (678-715) and builds DashboardFilters without its required
\* sort_order (728), which pydantic refuses too.  Every request ends in an
\* exception; sessions and calls_data are locals and are dropped with it.
AdminCampaignDashboard ==
    /\ pc = "start"
    /\ LET call_sessions == group_calls_by_session(calls, duration_minutes)
           paginated_sessions ==
               PaginatedSessions(call_sessions, DefaultPage, DefaultPageSize)
           local_calls_data == [k \in 1..Len(paginated_sessions) |->
                                   CampaignsDetailedCallRecord(paginated_sessions[k])]
       IN  pc' = "raised"
    /\ UNCHANGED <<calls, duration_minutes, sessions, calls_data, latest_calls,
                   categories, params, resolved,
                   session_ids, final_stages, stats, rate,
                   previous, db_pool, pools, tasks, heap, frame>>

NextPipeline == ExportGroup \/ ClientCampaign \/ AdminCampaignDashboard

SpecPipeline == InitPipeline /\ [][NextPipeline]_vars

----------------------------------------------------------------------------
(* Sessions by call_id: campaign_metrics.py, call_lookup.py *)

\* ORDER BY c.call_id, c.stage: ascending, NULL after every value
\* (PostgreSQL's default for ASC).  Rows that tie under ORDER BY come in no
\* promised order; here they keep the order of the table, which Init leaves
\* open.
NullsLastKey(x) == IF x = None THEN <<1, 0>> ELSE <<0, x[1]>>

OrderByCallIdStage(rows) ==
    StableSortBy(rows, [i \in 1..Len(rows) |->
                           NullsLastKey(rows[i].call_id) \o NullsLastKey(rows[i].stage)])

\* WHERE ... AND c.call_id IS NOT NULL
WhereCallIdNotNull(rows) == SelectSeq(rows, LAMBDA c : c.call_id # None)

\* utils.call.group_calls_by_call_id: an ordered mapping from each call_id
\* to the records that carry it, the call_ids in the order first seen, the
\* records of a call_id in input order.  The mapping is the list of its
\* items, [call_id, calls].
group_calls_by_call_id(cs) ==
    LET firsts == {i \in 1..Len(cs) :
                      /\ cs[i].call_id # None
                      /\ \A j \in 1..i - 1 : cs[j].call_id # cs[i].call_id}
        nth(k) == CHOOSE i \in firsts : Cardinality({j \in firsts : j < i}) = k - 1
    IN  List([k \in 1..Cardinality(firsts) |->
                 [call_id |-> cs[nth(k)].call_id,
                  calls |-> SelectSeq(cs, LAMBDA c : c.call_id = cs[nth(k)].call_id)]])

\* list(call_sessions_dict.values())
DictValues(items) == List([k \in 1..Len(items) |-> items[k].calls])

\* call_sessions.sort(key=max timestamp of the session, reverse=(sort_order == 'desc'))
SortSessionsByLatest(call_sessions, sort_order) ==
    LET keys == [k \in 1..Len(call_sessions) |-> <<MaxTimestamp(call_sessions[k])>>]
    IN  IF sort_order = "desc" THEN StableSortByDesc(call_sessions, keys)
        ELSE StableSortBy(call_sessions, keys)

\* for stage_call in stages_sorted[:-1]: stage_details.append(...)
\* ("Exclude the last stage from stage_details")
MetricsStageDetails(stages_sorted) ==
    [i \in 1..Len(stages_sorted) - 1 |-> StageDetail(stages_sorted[i])]

\* DetailedCallRecord of campaign_metrics.py, from one session.
MetricsDetailedCallRecord(session) ==
    LET stages_sorted == SortedByStage(session)
        latest_call == stages_sorted[Len(stages_sorted)]
        first_call == stages_sorted[1]
    IN  [id |-> latest_call.id,
         call_id |-> latest_call.call_id,
         number |-> latest_call.number,
         latest_stage |-> OrZero(latest_call.stage),
         first_timestamp |-> strftime(first_call.timestamp),
         last_timestamp |-> strftime(latest_call.timestamp),
         total_stages |-> Len(stages_sorted),
         stages |-> MetricsStageDetails(stages_sorted)]

\* pydantic's refusal of a value for a required field.
ValidationError == [raises |-> "ValidationError"]

\* class CallStageData(BaseModel): stage: Optional[int], transferred: bool,
\* timestamp: datetime.  A NULL in transferred or timestamp makes the
\* constructor raise ValidationError.
CallStageDataRaises(call) == call.transferred = None \/ call.timestamp = None

\* CallStageData(stage=call['stage'], ..., transferred=call['transferred'],
\* timestamp=call['timestamp']).  id is the row the entry was built from;
\* the response does not carry it.
CallStageData(call) ==
    IF CallStageDataRaises(call) THEN ValidationError
    ELSE [id |-> call.id, stage |-> call.stage, transferred |-> call.transferred[1],
          timestamp |-> call.timestamp[1]]

\* stages=sorted(stages, key=lambda s: s.stage or 0)
LookupStages(stages) == SortedByStage(stages)

\* max(stages, key=lambda s: s.stage or 0): the first of the greatest.
MaxByStage(stages) ==
    stages[CHOOSE i \in 1..Len(stages) :
              /\ \A j \in 1..Len(stages) :
                     OrZero(stages[j].stage) <= OrZero(stages[i].stage)
              /\ \A j \in 1..i - 1 :
                     OrZero(stages[j].stage) < OrZero(stages[i].stage)]

\* CallLookupResult for the records of one call_id.
GroupLookupResult(call_id, call_list) ==
    LET first_call == call_list[1]
        stages == [i \in 1..Len(call_list) |-> CallStageData(call_list[i])]
        final_stage == MaxByStage(stages)
    IN  [id |-> final_stage.id,
         number |-> first_call.number,
         call_id |-> call_id,
         stages |-> LookupStages(stages),
         final_decision_transferred |-> final_stage.transferred,
         total_stages |-> Len(stages)]

\* CallLookupResult for a record without call_id.
SingleLookupResult(call) ==
    [id |-> call.id,
     number |-> call.number,
     call_id |-> None,
     stages |-> <<CallStageData(call)>>,
     final_decision_transferred |-> call.transferred[1],
     total_stages |-> 1]

----------------------------------------------------------------------------
(* The call_id handlers on every table of at most MaxPipeLen rows *)

CallIds == {None} \cup {Some(n) : n \in 1..MaxCallId}

CallIdTables(n) ==
    {[i \in 1..n |-> [id |-> i, number |-> 555, call_id |-> f[i][1],
                      stage |-> f[i][2], timestamp |-> f[i][3]]] :
        f \in [1..n -> CallIds \X TableStages \X RowTimes]}

InitCallId ==
    /\ pc = "start"
    /\ \E n \in 0..MaxPipeLen : calls \in CallIdTables(n)
    /\ duration_minutes = DashboardWindowMinutes
    /\ sessions = << >>
    /\ latest_calls = << >>
    /\ calls_data = << >>
    /\ categories = << >>
    /\ params = None
    /\ resolved = None
    /\ session_ids = << >>
    /\ final_stages = << >>
    /\ stats = << >>
    /\ rate = None
    /\ previous = None
    /\ db_pool = None
    /\ pools = << >>
    /\ tasks = << >>
    /\ heap = << >>
    /\ frame = << >>

\* campaign_metrics.py, get_admin_campaign_dashboard without category or
\* stage filters: fetch, group by call_id, sort, paginate, format.
AdminMetricsDashboard ==
    /\ pc = "start"
    /\ \E sort_order \in {"asc", "desc"} :
          LET calls_list == OrderByCallIdStage(WhereCallIdNotNull(calls))
              call_sessions == SortSessionsByLatest(
                                   DictValues(group_calls_by_call_id(calls_list)),
                                   sort_order)
              start_idx == (DefaultPage - 1) * DefaultPageSize
              paginated_sessions ==
                  Slice(call_sessions, start_idx, start_idx + DefaultPageSize)
          IN  /\ pc' = "admin_metrics"
              /\ sessions' = call_sessions
              /\ calls_data' = [k \in 1..Len(paginated_sessions) |->
                                   MetricsDetailedCallRecord(paginated_sessions[k])]
    /\ UNCHANGED <<calls, duration_minutes, latest_calls, categories, params, resolved,
                   session_ids, final_stages, stats, rate,
                   previous, db_pool, pools, tasks, heap, frame>>

\* calls_without_id = [c for c in all_calls if c.get('call_id') is None]
CallsWithoutId(all_calls) == SelectSeq(all_calls, LAMBDA c : c.call_id = None)

\* call_lookup.py, fetch_call_data: fetch (ORDER BY number, call_id, stage;
\* every row here has one number), group the rows with a call_id, one result
\* per group, then one result per row without call_id.  Every fetched row
\* goes through CallStageData(...), in a group or alone: when one of them
\* raises, the function raises and returns nothing.
FetchCallData ==
    /\ pc = "start"
    /\ LET all_calls == OrderByCallIdStage(calls)
           calls_with_id == SelectSeq(all_calls, LAMBDA c : c.call_id # None)
           calls_without_id == CallsWithoutId(all_calls)
           grouped_calls == group_calls_by_call_id(calls_with_id)
       IN  IF \E call \in Range(all_calls) : CallStageDataRaises(call)
           THEN /\ pc' = "raised"
                /\ UNCHANGED <<sessions, calls_data>>
           ELSE /\ pc' = "lookup"
                /\ sessions' = DictValues(grouped_calls)
                       \o [i \in 1..Len(calls_without_id) |-> <<calls_without_id[i]>>]
                /\ calls_data' =
                       [k \in 1..Len(grouped_calls) |->
                           GroupLookupResult(grouped_calls[k].call_id,
                                             grouped_calls[k].calls)]
                       \o [i \in 1..Len(calls_without_id) |->
                              SingleLookupResult(calls_without_id[i])]
    /\ UNCHANGED <<calls, duration_minutes, latest_calls, categories, params, resolved,
                   session_ids, final_stages, stats, rate,
                   previous, db_pool, pools, tasks, heap, frame>>

NextCallId == AdminMetricsDashboard

SpecCallId == InitCallId /\ [][NextCallId]_vars

\* call_id, stage and transferred of a stored row, and whether it has a
\* timestamp: every call_id and stage with a transferred flag and a
\* timestamp, rows whose transferred is NULL, and a row without a timestamp.
LookupRowFields ==
    (CallIds \X TableStages \X {Some(FALSE)} \X {TRUE})
        \cup ({None, Some(1)} \X {Some(0)} \X {None} \X {TRUE})
        \cup ({Some(1)} \X {Some(0)} \X {Some(TRUE)} \X {FALSE})

\* The call lookup alone on every table of at most MaxLen rows, the rows one
\* minute apart.
LookupTables(n) ==
    {[i \in 1..n |-> [id |-> i, number |-> 555, call_id |-> f[i][1],
                      stage |-> f[i][2], transferred |-> f[i][3],
                      timestamp |-> IF f[i][4] THEN Some(timedelta(i - 1)) ELSE None]] :
        f \in [1..n -> LookupRowFields]}

InitLookup ==
    /\ pc = "start"
    /\ \E n \in 0..MaxLen : calls \in LookupTables(n)
    /\ duration_minutes = DashboardWindowMinutes
    /\ sessions = << >>
    /\ latest_calls = << >>
    /\ calls_data = << >>
    /\ categories = << >>
    /\ params = None
    /\ resolved = None
    /\ session_ids = << >>
    /\ final_stages = << >>
    /\ stats = << >>
    /\ rate = None
    /\ previous = None
    /\ db_pool = None
    /\ pools = << >>
    /\ tasks = << >>
    /\ heap = << >>
    /\ frame = << >>

NextLookup == FetchCallData

SpecLookup == InitLookup /\ [][NextLookup]_vars

----------------------------------------------------------------------------
(* utils/mappings.py, and the client normalizer of campaign_metrics.py *)

CLIENT_CATEGORY_MAPPING ==
    ("spanishanswermachine" :> "Answering Machine") @@
    ("answermachine" :> "Answering Machine") @@
    ("dnc" :> "DNC") @@
    ("dnq" :> "DNQ") @@
    ("honeypot" :> "Honeypot") @@
    ("unknown" :> "Unclear Response") @@
    ("busy" :> "Call Back") @@
    ("already" :> "Not Interested") @@
    ("notinterested" :> "Not Interested") @@
    ("rebuttal" :> "Not Interested") @@
    ("donttransfer" :> "Not Interested") @@
    ("qualified" :> "Qualified") @@
    ("interested" :> "Qualified") @@
    ("neutral" :> "Neutral") @@
    ("inaudible" :> "Inaudible") @@
    ("notresponding" :> "DAIR") @@
    ("usersilent" :> "User Silent") @@
    ("userhangup" :> "User Hangup") @@
    ("repeatpitch" :> "")

\* d.get(key, default)
DictGet(d, key, default) == IF key \in DOMAIN d THEN d[key] ELSE default

\* The truth value of an optional boolean: None and False are false.
Truthy(x) == x # None /\ x[1]

\* The truth value of an optional string: None and '' are false.
TruthyStr(x) == x # None /\ x[1] # ""

StaticClientCategory(original_category, call_data) ==
    DictGet(CLIENT_CATEGORY_MAPPING, original_category, original_category)

resolve_client_category(original_category, call_data) ==
    IF original_category = "already" /\ Truthy(call_data.transferred)
    THEN "Neutral"
    ELSE IF original_category = "busy" /\ Truthy(call_data.transferred)
    THEN "Neutral"
    ELSE DictGet(CLIENT_CATEGORY_MAPPING, original_category, original_category)

\* sorted(names), for the names the model can produce: this is their order
\* as Python strings (by code point, capitals before small letters).
NameOrder ==
    <<"", "Answering Machine", "Call Back", "DAIR", "DNC", "DNQ", "Honeypot",
      "Inaudible", "Neutral", "Not Interested", "Qualified", "UNKNOWN",
      "Unclear Response", "Unknown", "User Hangup", "User Silent", "already",
      "answermachine", "busy", "dnc", "dnq", "donttransfer", "honeypot",
      "inaudible", "interested", "neutral", "notinterested", "notresponding",
      "qualified", "rebuttal", "repeatpitch", "spanishanswermachine", "unknown",
      "unkown", "userhangup", "usersilent", "voicemail">>

\* sorted(combined_counts.keys())
SortedNames(names) == SelectSeq(NameOrder, LAMBDA n : n \in names)

----------------------------------------------------------------------------
(* campaign_metrics.py, get_client_campaign: the category counts *)

KeepEmpty(resolved_category) == FALSE

\* if resolved_category == "": continue
SkipEmpty(resolved_category) == resolved_category = ""

\* for call in base_latest_calls: ..., from the call at the head of rest on;
\* combined maps a category to its count and transferred count.
RECURSIVE CountLoop(_, _)
CountLoop(rest, combined) ==
    IF rest = << >> THEN combined
    ELSE LET call == Head(rest) IN
         IF ~TruthyStr(call.category_name)
         THEN CountLoop(Tail(rest), combined)
         ELSE LET resolved_category ==
                      resolve_client_category(call.category_name[1], call)
              IN  IF SkipEmpty(resolved_category)
                  THEN CountLoop(Tail(rest), combined)
                  ELSE LET seen == IF resolved_category \in DOMAIN combined
                                   THEN combined
                                   ELSE combined @@ (resolved_category :>
                                            [count |-> 0, transferred_count |-> 0])
                           counted ==
                               [seen EXCEPT ![resolved_category] =
                                   [count |-> @.count + 1,
                                    transferred_count |-> @.transferred_count +
                                        IF Truthy(call.transferred) THEN 1 ELSE 0]]
                       IN  CountLoop(Tail(rest), counted)

\* all_categories: one CategoryCount per combined name, sorted by name.
CategoryList(combined) ==
    LET names == SortedNames(DOMAIN combined)
    IN  [k \in 1..Len(names) |->
            [name |-> names[k],
             count |-> combined[names[k]].count,
             transferred_count |-> combined[names[k]].transferred_count]]

ClientCategoryCounts(base_latest_calls) ==
    CategoryList(CountLoop(base_latest_calls, << >>))

----------------------------------------------------------------------------
(* campaign_metrics.py, get_category_timeseries *)

\* category_info: the combined names of the categories of the database that
\* the client mapping maps to a name that is not empty.
CategoryInfoNames(db_categories) ==
    {CLIENT_CATEGORY_MAPPING[n] :
        n \in {m \in db_categories \cap DOMAIN CLIENT_CATEGORY_MAPPING :
                  CLIENT_CATEGORY_MAPPING[m] # ""}}

Min(a, b) == IF a < b THEN a ELSE b

\* while current_start < end_dt: ...
RECURSIVE Intervals(_, _, _)
Intervals(current_start, end_dt, interval_delta) ==
    IF current_start < end_dt
    THEN LET current_end == Min(current_start + interval_delta, end_dt)
         IN  <<[start |-> current_start, end |-> current_end]>>
                 \o Intervals(current_end, end_dt, interval_delta)
    ELSE << >>

\* original_category = call['category_name'] or 'Unknown'
OrUnknown(category_name) ==
    IF TruthyStr(category_name) THEN category_name[1] ELSE "Unknown"

\* The call passes the two `continue`s of the distribution loop.
TimeseriesMapped(call) ==
    /\ OrUnknown(call.category_name) \in DOMAIN CLIENT_CATEGORY_MAPPING
    /\ CLIENT_CATEGORY_MAPPING[OrUnknown(call.category_name)] # ""

\* The index of the first interval with start <= timestamp < end, 0 if none.
IntervalOf(timestamp, intervals) ==
    LET hits == {k \in 1..Len(intervals) :
                    intervals[k].start <= timestamp /\ timestamp < intervals[k].end}
    IN  IF hits = {} THEN 0 ELSE CHOOSE k \in hits : \A h \in hits : k <= h

\* The response: per interval its bounds as text and one CategoryCount per
\* name of category_info, sorted by name.
CategoryTimeseries(p, latest) ==
    LET names == SortedNames(CategoryInfoNames(p.db_categories))
        intervals == Intervals(p.start_dt, p.end_dt, timedelta(p.interval_minutes))
        hit(k, name) ==
            {i \in 1..Len(latest) :
                /\ TimeseriesMapped(latest[i])
                /\ CLIENT_CATEGORY_MAPPING[OrUnknown(latest[i].category_name)] = name
                /\ IntervalOf(latest[i].timestamp, intervals) = k}
    IN  [k \in 1..Len(intervals) |->
            [interval_start |-> strftime(intervals[k].start),
             interval_end |-> strftime(intervals[k].end),
             categories |->
                [j \in 1..Len(names) |->
                    [name |-> names[j],
                     count |-> Cardinality(hit(k, names[j])),
                     transferred_count |->
                         Cardinality({i \in hit(k, names[j]) :
                                         Truthy(latest[i].transferred)})]]]]

----------------------------------------------------------------------------
(* The normalizer on every raw category and every transferred flag *)

OptionalBooleans == {None, Some(TRUE), Some(FALSE)}

\* Every key of the client mapping and raw names that are not keys of it.
RawCategoryNames ==
    DOMAIN CLIENT_CATEGORY_MAPPING \cup {"voicemail", "Unknown", "unkown", ""}

InitNormalizer ==
    /\ pc = "start"
    /\ calls = << >>
    /\ duration_minutes = DashboardWindowMinutes
    /\ sessions = << >>
    /\ latest_calls \in {<<[id |-> 1, category_name |-> Some(c), transferred |-> t]>> :
                            c \in RawCategoryNames, t \in OptionalBooleans}
    /\ calls_data = << >>
    /\ categories = << >>
    /\ params = None
    /\ resolved = None
    /\ session_ids = << >>
    /\ final_stages = << >>
    /\ stats = << >>
    /\ rate = None
    /\ previous = None
    /\ db_pool = None
    /\ pools = << >>
    /\ tasks = << >>
    /\ heap = << >>
    /\ frame = << >>

ResolveClientCategory ==
    /\ pc = "start"
    /\ pc' = "normalized"
    /\ resolved' = Some(resolve_client_category(latest_calls[1].category_name[1],
                                                latest_calls[1]))
    /\ UNCHANGED <<calls, duration_minutes, sessions, latest_calls, calls_data,
                   categories, params,
                   session_ids, final_stages, stats, rate,
                   previous, db_pool, pools, tasks, heap, frame>>

NextNormalizer == ResolveClientCategory

SpecNormalizer == InitNormalizer /\ [][NextNormalizer]_vars

----------------------------------------------------------------------------
(* The category counters on every list of final stages *)

CategorySamples ==
    {None, Some(""), Some("busy"), Some("already"), Some("qualified"),
     Some("repeatpitch"), Some("voicemail")}

FinalStageLists(n) ==
    {[i \in 1..n |-> [id |-> i, category_name |-> f[i][1],
                      transferred |-> Some(f[i][2]), timestamp |-> f[i][3]]] :
        f \in [1..n -> CategorySamples \X BOOLEAN \X RowTimes]}

\* The response_categories table: every name, or a few of them.
CategoryTables ==
    {DOMAIN CLIENT_CATEGORY_MAPPING \cup {"voicemail"}, {"busy", "repeatpitch", "voicemail"}}

\* start_dt < end_dt, the interval one minute; the range ends on an
\* interval's end or one tick behind it.
TimeseriesParams ==
    [start_dt : {0}, end_dt : {TicksPerMinute, TicksPerMinute + 1},
     interval_minutes : {1}, db_categories : CategoryTables]

InitCategory ==
    /\ pc = "start"
    /\ calls = << >>
    /\ duration_minutes = DashboardWindowMinutes
    /\ sessions = << >>
    /\ \E n \in 0..MaxPipeLen : latest_calls \in FinalStageLists(n)
    /\ calls_data = << >>
    /\ categories = << >>
    /\ params \in TimeseriesParams
    /\ \A i \in 1..Len(latest_calls) :
          /\ params.start_dt <= latest_calls[i].timestamp
          /\ latest_calls[i].timestamp <= params.end_dt
    /\ resolved = None
    /\ session_ids = << >>
    /\ final_stages = << >>
    /\ stats = << >>
    /\ rate = None
    /\ previous = None
    /\ db_pool = None
    /\ pools = << >>
    /\ tasks = << >>
    /\ heap = << >>
    /\ frame = << >>

\* get_client_campaign: all_categories from the final stages.
ClientCategories ==
    /\ pc = "start"
    /\ pc' = "client_counts"
    /\ categories' = ClientCategoryCounts(latest_calls)
    /\ UNCHANGED <<calls, duration_minutes, sessions, latest_calls, calls_data,
                   params, resolved,
                   session_ids, final_stages, stats, rate,
                   previous, db_pool, pools, tasks, heap, frame>>

\* get_category_timeseries: the intervals from the final stages.
CategoryTimeseriesIntervals ==
    /\ pc = "start"
    /\ pc' = "timeseries"
    /\ categories' = CategoryTimeseries(params, latest_calls)
    /\ UNCHANGED <<calls, duration_minutes, sessions, latest_calls, calls_data,
                   params, resolved,
                   session_ids, final_stages, stats, rate,
                   previous, db_pool, pools, tasks, heap, frame>>

NextCategory == ClientCategories \/ CategoryTimeseriesIntervals

SpecCategory == InitCategory /\ [][NextCategory]_vars

----------------------------------------------------------------------------
(* stats.py, voice_stats.py: the rate helpers *)

TruncatedPercent(numerator, denominator) ==
    (10000 * numerator) \div denominator

\* round(x, 2) of the quotient numerator / denominator * 100, in
\* hundredths: the nearest hundredth, a tie going to the even one.  Python
\* computes the quotient in floating point; for denominators under 160 the
\* result is the one given here.
RoundedPercent(numerator, denominator) ==
    LET q == (10000 * numerator) \div denominator
        r == (10000 * numerator) % denominator
    IN  IF 2 * r < denominator THEN q
        ELSE IF 2 * r > denominator THEN q + 1
        ELSE IF q % 2 = 0 THEN q ELSE q + 1

\* if total == 0: return 0.0; return round((transferred / total) * 100, 2)
calculate_transfer_rate(transferred, total) ==
    IF total = 0 THEN 0 ELSE RoundedPercent(transferred, total)

calculate_qualified_rate(qualified, transferred) ==
    IF transferred = 0 THEN 0 ELSE RoundedPercent(qualified, transferred)

calculate_null_voice_ratio(null_count, total) ==
    IF total = 0 THEN 0 ELSE RoundedPercent(null_count, total)

----------------------------------------------------------------------------
(* The rate helpers on every pair of counts *)

Counts == 0..MaxCount

InitRates ==
    /\ pc = "start"
    /\ calls = << >>
    /\ duration_minutes = DashboardWindowMinutes
    /\ sessions = << >>
    /\ latest_calls = << >>
    /\ calls_data = << >>
    /\ categories = << >>
    /\ params \in [numerator : Counts, denominator : Counts]
    /\ resolved = None
    /\ session_ids = << >>
    /\ final_stages = << >>
    /\ stats = << >>
    /\ rate = None
    /\ previous = None
    /\ db_pool = None
    /\ pools = << >>
    /\ tasks = << >>
    /\ heap = << >>
    /\ frame = << >>

TransferRate ==
    /\ pc = "start"
    /\ pc' = "transfer_rate"
    /\ rate' = Some(calculate_transfer_rate(params.numerator, params.denominator))
    /\ UNCHANGED <<calls, duration_minutes, sessions, latest_calls, calls_data,
                   categories, params, resolved, session_ids, final_stages, stats,
                   previous, db_pool, pools, tasks, heap, frame>>

QualifiedRate ==
    /\ pc = "start"
    /\ pc' = "qualified_rate"
    /\ rate' = Some(calculate_qualified_rate(params.numerator, params.denominator))
    /\ UNCHANGED <<calls, duration_minutes, sessions, latest_calls, calls_data,
                   categories, params, resolved, session_ids, final_stages, stats,
                   previous, db_pool, pools, tasks, heap, frame>>

NullVoiceRatio ==
    /\ pc = "start"
    /\ pc' = "null_voice_ratio"
    /\ rate' = Some(calculate_null_voice_ratio(params.numerator, params.denominator))
    /\ UNCHANGED <<calls, duration_minutes, sessions, latest_calls, calls_data,
                   categories, params, resolved, session_ids, final_stages, stats,
                   previous, db_pool, pools, tasks, heap, frame>>

NextRates == TransferRate \/ QualifiedRate \/ NullVoiceRatio

SpecRates == InitRates /\ [][NextRates]_vars

----------------------------------------------------------------------------
(* stats.py, voice_stats.py: the session query of the transfer statistics, *)
(* for the calls of one campaign (one partition of the windows)            *)

\* INTERVAL '2 minutes'
SqlWindowMinutes == 2

\* The window's order, ORDER BY number, timestamp.  Rows equal in both are
\* peers: the query promises no order among them; here they keep the order
\* of the table, which Init leaves open.
OrderByNumberTimestamp(rows) == SortedCalls(rows)

SessionStartOnNumberOnly(ordered, i) ==
    IF i > 1 /\ ordered[i - 1].number = ordered[i].number THEN 0 ELSE 1

\* session_start: CASE WHEN LAG(number) = number AND timestamp -
\* LAG(timestamp) <= INTERVAL '2 minutes' THEN 0 ELSE 1 END.  The first row
\* has no LAG row: the comparison with NULL is not true, so it starts.
SessionStart(ordered, i) ==
    IF /\ i > 1
       /\ ordered[i - 1].number = ordered[i].number
       /\ ordered[i].timestamp - ordered[i - 1].timestamp <= timedelta(SqlWindowMinutes)
    THEN 0
    ELSE 1

\* The sum of session_start over the rows at places 1..k.
RECURSIVE SumSessionStart(_, _)
SumSessionStart(ordered, k) ==
    IF k = 0 THEN 0 ELSE SessionStart(ordered, k) + SumSessionStart(ordered, k - 1)

\* The place of the last peer of row i.
LastPeer(ordered, i) ==
    CHOOSE k \in i..Len(ordered) :
        /\ NumberTimestampKey(ordered[k]) = NumberTimestampKey(ordered[i])
        /\ \A j \in k + 1..Len(ordered) :
              NumberTimestampKey(ordered[j]) # NumberTimestampKey(ordered[i])

\* session_id: SUM(session_start) OVER (ORDER BY number, timestamp).  The
\* frame of a window with ORDER BY runs from the first row through the last
\* peer of the current row.
SessionId(ordered, i) == SumSessionStart(ordered, LastPeer(ordered, i))

\* sessions_identified: every row with its session_id.
SessionsIdentified(rows) ==
    LET ordered == OrderByNumberTimestamp(rows)
    IN  List([i \in 1..Len(ordered) |-> [row |-> ordered[i],
                                         session_id |-> SessionId(ordered, i)]])

\* The session_ids of sessions_identified.
SessionIdsOf(identified) == {identified[i].session_id : i \in 1..Len(identified)}

\* r comes before s under ORDER BY stage DESC NULLS LAST.
StageDescNullsLastBefore(r, s) ==
    \/ r.stage # None /\ s.stage = None
    \/ r.stage # None /\ s.stage # None /\ r.stage[1] > s.stage[1]

\* The rows DISTINCT ON (session_id) ... ORDER BY session_id, stage DESC
\* NULLS LAST may keep for a session: those no row of the session comes
\* before.  Which of them it keeps is not promised.
FirstRowsOfSession(identified, sid) ==
    {identified[i].row : i \in {k \in 1..Len(identified) :
        /\ identified[k].session_id = sid
        /\ \A j \in 1..Len(identified) :
              identified[j].session_id = sid =>
                  ~StageDescNullsLastBefore(identified[j].row, identified[k].row)}}

\* The session_ids in ascending order.
SortedSessionIds(identified) ==
    LET ids == SessionIdsOf(identified)
    IN  [k \in 1..Cardinality(ids) |->
            CHOOSE sid \in ids : Cardinality({t \in ids : t < sid}) = k - 1]

\* In-process: group_calls_by_session(calls_list, duration_minutes=2), then
\* sorted(session, key=stage or 0)[-1] per session (campaigns.py).
InProcessSessions(rows) == group_calls_by_session(rows, DashboardWindowMinutes)

----------------------------------------------------------------------------
(* The session numbering of the query and the grouper on the same rows *)

InitSqlSessions ==
    /\ pc = "start"
    /\ \E n \in 0..MaxLen : calls \in CallLists(n)
    /\ duration_minutes = DashboardWindowMinutes
    /\ sessions = << >>
    /\ latest_calls = << >>
    /\ calls_data = << >>
    /\ categories = << >>
    /\ params = None
    /\ resolved = None
    /\ session_ids = << >>
    /\ final_stages = << >>
    /\ stats = << >>
    /\ rate = None
    /\ previous = None
    /\ db_pool = None
    /\ pools = << >>
    /\ tasks = << >>
    /\ heap = << >>
    /\ frame = << >>

\* The query up to sessions_identified.
SqlIdentifySessions ==
    /\ pc = "start"
    /\ pc' = "identified"
    /\ session_ids' = SessionsIdentified(calls)
    /\ UNCHANGED <<calls, duration_minutes, sessions, latest_calls, calls_data,
                   categories, params, resolved, final_stages, stats, rate,
                   previous, db_pool, pools, tasks, heap, frame>>

\* The grouper, on the rows the query read.
GroupSameRows ==
    /\ pc = "identified"
    /\ pc' = "both"
    /\ sessions' = InProcessSessions(calls)
    /\ UNCHANGED <<calls, duration_minutes, latest_calls, calls_data, categories,
                   params, resolved, session_ids, final_stages, stats, rate,
                   previous, db_pool, pools, tasks, heap, frame>>

NextSqlSessions == SqlIdentifySessions \/ GroupSameRows

SpecSqlSessions == InitSqlSessions /\ [][NextSqlSessions]_vars

----------------------------------------------------------------------------
(* The final stages of the query and of the resolver on the same rows *)

InitSqlFinal ==
    /\ pc = "start"
    /\ \E n \in 0..MaxPipeLen : calls \in PipelineCallLists(n)
    /\ duration_minutes = DashboardWindowMinutes
    /\ sessions = << >>
    /\ latest_calls = << >>
    /\ calls_data = << >>
    /\ categories = << >>
    /\ params = None
    /\ resolved = None
    /\ session_ids = << >>
    /\ final_stages = << >>
    /\ stats = << >>
    /\ rate = None
    /\ previous = None
    /\ db_pool = None
    /\ pools = << >>
    /\ tasks = << >>
    /\ heap = << >>
    /\ frame = << >>

\* The query up to final_stages: one row per session_id, in session_id
\* order, any of the rows that may come first.
SqlFinalStages ==
    /\ pc = "start"
    /\ LET identified == SessionsIdentified(calls)
           sids == SortedSessionIds(identified)
       IN  /\ session_ids' = identified
           /\ \E f \in [1..Len(sids) -> Range(calls)] :
                 /\ \A k \in 1..Len(sids) : f[k] \in FirstRowsOfSession(identified, sids[k])
                 /\ final_stages' = f
    /\ pc' = "final_stages"
    /\ UNCHANGED <<calls, duration_minutes, sessions, latest_calls, calls_data,
                   categories, params, resolved, stats, rate,
                   previous, db_pool, pools, tasks, heap, frame>>

\* campaigns.py: the sessions and their final stages, on the rows the query
\* read.
ResolveSameRows ==
    /\ pc = "final_stages"
    /\ pc' = "both_final"
    /\ sessions' = InProcessSessions(calls)
    /\ latest_calls' = LatestCalls(sessions')
    /\ UNCHANGED <<calls, duration_minutes, calls_data, categories, params, resolved,
                   session_ids, final_stages, stats, rate,
                   previous, db_pool, pools, tasks, heap, frame>>

NextSqlFinal == SqlFinalStages \/ ResolveSameRows

SpecSqlFinal == InitSqlFinal /\ [][NextSqlFinal]_vars

----------------------------------------------------------------------------
(* stats/voice_stats.py and stats.py: the voice statistics over final_stages *)

MaxSessions == 2

VoiceOrder == <<"Ava", "Ben">>

VoiceNames == Range(VoiceOrder)

\* qualified_originals: the raw names the client mapping sends to "Qualified".
QualifiedOriginals ==
    {orig \in DOMAIN CLIENT_CATEGORY_MAPPING : CLIENT_CATEGORY_MAPPING[orig] = "Qualified"}

\* response_category = 'Qualified'
QualifiedLiteral == {"Qualified"}

\* CASE WHEN transferred: a NULL flag is not true.
WhenTransferred(row) == row.transferred = Some(TRUE)

\* response_category = ANY(labels); a NULL category equals nothing.
WhenQualified(row, labels) ==
    row.response_category # None /\ row.response_category[1] \in labels

AnyVoice(final, i) == TRUE

\* voice_name IS NOT NULL
VoiceIsNotNull(final, i) == final[i].voice_name # None

\* The rows of final_stages with a voice.
VoicedRows(final) == {i \in DOMAIN final : VoiceIsNotNull(final, i)}

NoNullVoiceRows(final) == {}

\* CASE WHEN voice_name IS NULL: the rows of final_stages without a voice.
NullVoiceRows(final) == {i \in DOMAIN final : final[i].voice_name = None}

\* voice_stats: GROUP BY voice_name over the rows WHERE voice_name IS NOT NULL,
\* in the ORDER BY vs.voice_name of the outer query.
VoiceGroups(final) ==
    SelectSeq(VoiceOrder,
              LAMBDA v : \E i \in VoicedRows(final) : final[i].voice_name = Some(v))

VoiceGroupRow(final, labels, v) ==
    LET rows == {i \in VoicedRows(final) : final[i].voice_name = Some(v)}
        transferred == {i \in rows : WhenTransferred(final[i])}
    IN  [voice_name |-> v,
         total_calls |-> Cardinality(rows),
         transferred_calls |-> Cardinality(transferred),
         qualified_transferred_calls |->
             Cardinality({i \in transferred : WhenQualified(final[i], labels)})]

\* campaign_totals: one row over all of final_stages.
CampaignTotals(final, labels) ==
    LET voiced == VoicedRows(final)
        transferred == {i \in voiced : WhenTransferred(final[i])}
    IN  [total_sessions |-> Len(final),
         null_voice_calls |-> Cardinality(NullVoiceRows(final)),
         voiced_calls |-> Cardinality(voiced),
         voiced_transferred |-> Cardinality(transferred),
         qualified_transferred |->
             Cardinality({i \in transferred : WhenQualified(final[i], labels)})]

\* VoiceTransferStats(...) and VoiceOverallStats(...) of one voice_stats row.
VoiceTransferStats(row) ==
    LET voice_non_qualified == row.transferred_calls - row.qualified_transferred_calls
    IN  [voice_name |-> row.voice_name,
         total_calls |-> row.total_calls,
         transferred_calls |-> row.transferred_calls,
         transfer_rate |-> calculate_transfer_rate(row.transferred_calls, row.total_calls),
         non_transferred_calls |-> row.total_calls - row.transferred_calls,
         qualified_transferred_calls |-> row.qualified_transferred_calls,
         qualified_transfer_rate |->
             calculate_qualified_rate(row.qualified_transferred_calls, row.transferred_calls),
         non_qualified_transferred_calls |-> voice_non_qualified,
         non_qualified_transfer_rate |->
             calculate_qualified_rate(voice_non_qualified, row.transferred_calls)]

\* CampaignTransferStats(...) and OverallVoiceStatsResponse(...): the totals
\* row, which also carries total_sessions, and the per-voice entries.
TransferStats(final, labels) ==
    LET row == CampaignTotals(final, labels)
        total_non_qualified == row.voiced_transferred - row.qualified_transferred
        groups == VoiceGroups(final)
    IN  [total_sessions |-> row.total_sessions,
         total_calls |-> row.voiced_calls,
         transferred_calls |-> row.voiced_transferred,
         transfer_rate |-> calculate_transfer_rate(row.voiced_transferred, row.voiced_calls),
         non_transferred_calls |-> row.voiced_calls - row.voiced_transferred,
         qualified_transferred_calls |-> row.qualified_transferred,
         qualified_transfer_rate |->
             calculate_qualified_rate(row.qualified_transferred, row.voiced_transferred),
         non_qualified_transferred_calls |-> total_non_qualified,
         non_qualified_transfer_rate |->
             calculate_qualified_rate(total_non_qualified, row.voiced_transferred),
         null_voice_calls |-> row.null_voice_calls,
         null_voice_ratio |->
             calculate_null_voice_ratio(row.null_voice_calls, row.total_sessions),
         voice_stats |->
             [k \in 1..Len(groups) |->
                 VoiceTransferStats(VoiceGroupRow(final, labels, groups[k]))]]

VoiceCategories == {None, Some("qualified"), Some("interested"), Some("Qualified")}

FinalStageRows ==
    [voice_name : {None} \cup {Some(v) : v \in VoiceNames},
     transferred : OptionalBooleans,
     response_category : VoiceCategories]

FinalStageTables(n) == [1..n -> FinalStageRows]

InitVoiceStats ==
    /\ pc = "start"
    /\ calls = << >>
    /\ duration_minutes = DashboardWindowMinutes
    /\ sessions = << >>
    /\ latest_calls = << >>
    /\ calls_data = << >>
    /\ categories = << >>
    /\ params = None
    /\ resolved = None
    /\ session_ids = << >>
    /\ \E n \in 0..MaxSessions : final_stages \in FinalStageTables(n)
    /\ stats = << >>
    /\ rate = None
    /\ previous = None
    /\ db_pool = None
    /\ pools = << >>
    /\ tasks = << >>
    /\ heap = << >>
    /\ frame = << >>

\* stats/voice_stats.py, get_all_campaigns_transfer_stats, for one campaign.
VoiceStatsAllCampaigns ==
    /\ pc = "start"
    /\ pc' = "voice_stats_campaigns"
    /\ stats' = TransferStats(final_stages, QualifiedOriginals)
    /\ UNCHANGED <<calls, duration_minutes, sessions, latest_calls, calls_data, categories,
                   params, resolved, session_ids, final_stages, rate,
                   previous, db_pool, pools, tasks, heap, frame>>

\* stats.py, get_all_campaigns_transfer_stats, for one campaign.
StatsAllCampaigns ==
    /\ pc = "start"
    /\ pc' = "stats_campaigns"
    /\ stats' = TransferStats(final_stages, QualifiedLiteral)
    /\ UNCHANGED <<calls, duration_minutes, sessions, latest_calls, calls_data, categories,
                   params, resolved, session_ids, final_stages, rate,
                   previous, db_pool, pools, tasks, heap, frame>>

\* stats/voice_stats.py, get_overall_voice_stats.  Over no final stage the
\* totals row has total_sessions 0 and NULL sums, and
\* voiced_transferred - qualified_transferred raises TypeError.
OverallVoiceStats ==
    /\ pc = "start"
    /\ IF final_stages = << >>
       THEN /\ pc' = "raised"
            /\ stats' = stats
       ELSE /\ pc' = "overall_voice_stats"
            /\ stats' = TransferStats(final_stages, QualifiedLiteral)
    /\ UNCHANGED <<calls, duration_minutes, sessions, latest_calls, calls_data, categories,
                   params, resolved, session_ids, final_stages, rate,
                   previous, db_pool, pools, tasks, heap, frame>>

NextVoiceStats == VoiceStatsAllCampaigns \/ StatsAllCampaigns \/ OverallVoiceStats

SpecVoiceStats == InitVoiceStats /\ [][NextVoiceStats]_vars

----------------------------------------------------------------------------
(* campaigns.py, get_client_campaign: the category counts *)

ADMIN_CATEGORY_MAPPING ==
    ("greetingresponse" :> "Greeting Response") @@
    ("notfeelinggood" :> "Not Feeling Good") @@
    ("dnc" :> "Do Not Call") @@
    ("honeypot_hardcoded" :> "Honeypot") @@
    ("honeypot" :> "Honeypot") @@
    ("spanishanswermachine" :> "Spanish Answering Machine") @@
    ("answermachine" :> "Answering Machine") @@
    ("already" :> "Already Customer") @@
    ("rebuttal" :> "Rebuttal") @@
    ("notinterested" :> "Not Interested") @@
    ("busy" :> "Busy") @@
    ("dnq" :> "Do Not Qualify") @@
    ("qualified" :> "Qualified") @@
    ("neutral" :> "Neutral") @@
    ("repeatpitch" :> "Repeat Pitch") @@
    ("interested" :> "Interested") @@
    ("unkown" :> "Unclear Response")

\* sorted(...) of the combined names the admin mapping can produce.
AdminNameOrder ==
    <<"", "Already Customer", "Answering Machine", "Busy", "Do Not Call",
      "Do Not Qualify", "Greeting Response", "Honeypot", "Interested", "Neutral",
      "Not Feeling Good", "Not Interested", "Qualified", "Rebuttal", "Repeat Pitch",
      "Spanish Answering Machine", "UNKNOWN", "Unclear Response", "already",
      "answermachine", "busy", "dnc", "dnq", "greetingresponse", "honeypot",
      "honeypot_hardcoded", "interested", "neutral", "notfeelinggood",
      "notinterested", "qualified", "rebuttal", "repeatpitch",
      "spanishanswermachine", "unkown", "voicemail">>

\* ADMIN_CATEGORY_MAPPING.get(original_name, original_name)
AdminCombinedName(original_name) ==
    DictGet(ADMIN_CATEGORY_MAPPING, original_name, original_name)

\* for session in call_sessions: ... category_counts_raw, from the final
\* stage at the head of rest on.
RECURSIVE RawCountLoop(_, _)
RawCountLoop(rest, category_counts_raw) ==
    IF rest = << >> THEN category_counts_raw
    ELSE LET latest_call == Head(rest) IN
         IF ~TruthyStr(latest_call.category_name)
         THEN RawCountLoop(Tail(rest), category_counts_raw)
         ELSE LET cat_name == latest_call.category_name[1]
                  seen == IF cat_name \in DOMAIN category_counts_raw
                          THEN category_counts_raw
                          ELSE category_counts_raw @@
                                   (cat_name :> [count |-> 0, transferred_count |-> 0])
              IN  RawCountLoop(Tail(rest),
                      [seen EXCEPT ![cat_name] =
                          [count |-> @.count + 1,
                           transferred_count |-> @.transferred_count +
                               IF Truthy(latest_call.transferred) THEN 1 ELSE 0]])

\* db_cat['name'] or 'UNKNOWN'
DbCategoryName(name) == IF name = "" THEN "UNKNOWN" ELSE name

\* The sum of a field of category_counts_raw over the raw names.
RECURSIVE SumRaw(_, _, _)
SumRaw(names, category_counts_raw, field) ==
    IF names = {} THEN 0
    ELSE LET n == CHOOSE m \in names : TRUE
         IN  category_counts_raw[n][field] + SumRaw(names \ {n}, category_counts_raw, field)

\* The keys of combined_counts behind the loop over db_categories.
DbCombinedNames(db_categories) ==
    {AdminCombinedName(DbCategoryName(n)) : n \in db_categories}

\* What a handler gives when a dictionary has no entry for the key.
KeyError == [raises |-> "KeyError"]

\* combined_counts[combined_name] += cat_data['count'] raises KeyError: a
\* raw category whose combined name is no key of combined_counts.
CombinedCountsRaises(db_categories, category_counts_raw) ==
    \E n \in DOMAIN category_counts_raw :
        AdminCombinedName(n) \notin DbCombinedNames(db_categories)

\* combined_counts and combined_transferred_counts: every category of the
\* database starts at 0 under its combined name, then the raw counts are
\* added under theirs; KeyError when a raw count has no such entry.
AdminCombinedCounts(db_categories, category_counts_raw) ==
    IF CombinedCountsRaises(db_categories, category_counts_raw) THEN KeyError
    ELSE
    [combined_name \in DbCombinedNames(db_categories) |->
        LET raw == {n \in DOMAIN category_counts_raw : AdminCombinedName(n) = combined_name}
        IN  [count |-> SumRaw(raw, category_counts_raw, "count"),
             transferred_count |-> SumRaw(raw, category_counts_raw, "transferred_count")]]

\* all_categories: one CategoryCount per combined name, sorted by name.
AdminCategoryList(combined) ==
    LET names == SelectSeq(AdminNameOrder, LAMBDA n : n \in DOMAIN combined)
    IN  [k \in 1..Len(names) |->
            [name |-> names[k],
             count |-> combined[names[k]].count,
             transferred_count |-> combined[names[k]].transferred_count]]

\* all_categories of campaigns.py, or KeyError.
CampaignsCategoryCounts(latest_calls_of_sessions, db_categories) ==
    IF CombinedCountsRaises(db_categories, RawCountLoop(latest_calls_of_sessions, << >>))
    THEN KeyError
    ELSE AdminCategoryList(AdminCombinedCounts(db_categories,
                               RawCountLoop(latest_calls_of_sessions, << >>)))

\* The final stages of the sessions, with the voice of each.
VoicedCategorySamples == {None, Some("busy"), Some("already"), Some("qualified"),
                          Some("repeatpitch")}

VoicedFinalStageLists(n) ==
    {[i \in 1..n |-> [id |-> i, category_name |-> f[i][1],
                      transferred |-> Some(f[i][2]), voice_name |-> f[i][3]]] :
        f \in [1..n -> VoicedCategorySamples \X BOOLEAN \X {None, Some("Ava")}]}

\* The response_categories table when the categories are fetched, behind the
\* query of the calls: every name, the sampled names, or a table a sampled
\* name has left since the calls were fetched.
VoicedCategoryTables ==
    {DOMAIN ADMIN_CATEGORY_MAPPING \cup {"voicemail"},
     {"", "busy", "already", "qualified", "repeatpitch"},
     {"busy"}}

InitVoicedCategory ==
    /\ pc = "start"
    /\ calls = << >>
    /\ duration_minutes = DashboardWindowMinutes
    /\ sessions = << >>
    /\ \E n \in 0..MaxPipeLen : latest_calls \in VoicedFinalStageLists(n)
    /\ calls_data = << >>
    /\ categories = << >>
    /\ params \in [db_categories : VoicedCategoryTables]
    /\ resolved = None
    /\ session_ids = << >>
    /\ final_stages = << >>
    /\ stats = << >>
    /\ rate = None
    /\ previous = None
    /\ db_pool = None
    /\ pools = << >>
    /\ tasks = << >>
    /\ heap = << >>
    /\ frame = << >>

\* campaign_metrics.py, get_client_campaign: all_categories.
MetricsClientCategories ==
    /\ pc = "start"
    /\ pc' = "metrics_counts"
    /\ categories' = ClientCategoryCounts(latest_calls)
    /\ UNCHANGED <<calls, duration_minutes, sessions, latest_calls, calls_data, params,
                   resolved, session_ids, final_stages, stats, rate,
                   previous, db_pool, pools, tasks, heap, frame>>

\* campaigns.py, get_client_campaign: all_categories, or the KeyError that
\* ends the request.
CampaignsClientCategories ==
    /\ pc = "start"
    /\ IF CombinedCountsRaises(params.db_categories, RawCountLoop(latest_calls, << >>))
       THEN /\ pc' = "raised"
            /\ categories' = categories
       ELSE /\ pc' = "campaigns_counts"
            /\ categories' = CampaignsCategoryCounts(latest_calls, params.db_categories)
    /\ UNCHANGED <<calls, duration_minutes, sessions, latest_calls, calls_data, params,
                   resolved, session_ids, final_stages, stats, rate,
                   previous, db_pool, pools, tasks, heap, frame>>

NextVoicedCategory == MetricsClientCategories \/ CampaignsClientCategories

SpecVoicedCategory == InitVoicedCategory /\ [][NextVoicedCategory]_vars

----------------------------------------------------------------------------
(* stats.py, fetch_call_data: the lookup of the latest stage per number *)

\* ORDER BY c.number, c.stage
OrderByNumberStage(rows) ==
    StableSortBy(rows, [i \in 1..Len(rows) |->
                           <<rows[i].number>> \o NullsLastKey(rows[i].stage)])

\* class CallStageData(BaseModel): stage: int, transferred: bool,
\* timestamp: datetime.  A NULL in one of them makes the constructor raise
\* ValidationError.
ValidStatsCallStageData(row) ==
    row.stage # None /\ row.transferred # None /\ row.timestamp # None

\* CallStageData(stage=row['stage'], ...)
StatsCallStageData(row) ==
    [id |-> row.id, stage |-> row.stage, response_category |-> row.response_category,
     transferred |-> row.transferred, timestamp |-> row.timestamp]

\* calls_by_number[number]['stages']
StagesOfNumber(rows, number) ==
    LET of_number == SelectSeq(rows, LAMBDA row : row.number = number)
    IN  [i \in 1..Len(of_number) |-> StatsCallStageData(of_number[i])]

\* CallLookupResult(...) of a found number; final_stage = stages[-1].
NumberLookupResult(number, stages) ==
    LET final_stage == stages[Len(stages)]
    IN  [id |-> final_stage.id,
         number |-> number,
         stages |-> stages,
         final_response_category |-> final_stage.response_category,
         final_decision_transferred |-> final_stage.transferred[1],
         total_stages |-> Len(stages)]

\* for number in numbers: if number in calls_by_number: results.append(...)
NumberLookupResults(rows, numbers) ==
    LET found == SelectSeq(numbers, LAMBDA number : \E row \in Range(rows) : row.number = number)
    IN  [k \in 1..Len(found) |-> NumberLookupResult(found[k], StagesOfNumber(rows, found[k]))]

\* The rows of the calls table for the searched numbers.
\* stage, transferred and timestamp of a row: every stage and transferred
\* flag with a timestamp, and rows without a timestamp.
StoredStageFields ==
    (TableStages \X OptionalBooleans \X {Some(0)})
        \cup ({Some(0), Some(1)} \X {Some(FALSE)} \X {None})

NumberLookupTables(n) ==
    {[i \in 1..n |-> [id |-> i, number |-> f[i][1], stage |-> f[i][2][1],
                      transferred |-> f[i][2][2], timestamp |-> f[i][2][3],
                      response_category |-> f[i][3]]] :
        f \in [1..n -> Numbers \X StoredStageFields \X {None, Some("qualified")}]}

\* parse_csv_numbers returns the numbers without duplicates.
SearchedNumbers == {<<555>>, <<777, 555>>}

InitNumberLookup ==
    /\ pc = "start"
    /\ params \in [numbers : SearchedNumbers]
    /\ \E n \in 0..MaxPipeLen : calls \in NumberLookupTables(n)
    /\ duration_minutes = DashboardWindowMinutes
    /\ sessions = << >>
    /\ latest_calls = << >>
    /\ calls_data = << >>
    /\ categories = << >>
    /\ resolved = None
    /\ session_ids = << >>
    /\ final_stages = << >>
    /\ stats = << >>
    /\ rate = None
    /\ previous = None
    /\ db_pool = None
    /\ pools = << >>
    /\ tasks = << >>
    /\ heap = << >>
    /\ frame = << >>

\* fetch_call_data(numbers, conn): WHERE c.number = ANY($1) ORDER BY
\* c.number, c.stage, then one CallStageData per row and one result per
\* searched number that was found.
StatsFetchCallData ==
    /\ pc = "start"
    /\ LET rows == OrderByNumberStage(
                       SelectSeq(calls, LAMBDA c : c.number \in Range(params.numbers)))
       IN  IF \E row \in Range(rows) : ~ValidStatsCallStageData(row)
           THEN /\ pc' = "raised"
                /\ calls_data' = calls_data
           ELSE /\ pc' = "number_lookup"
                /\ calls_data' = NumberLookupResults(rows, params.numbers)
    /\ UNCHANGED <<calls, duration_minutes, sessions, latest_calls, categories, params,
                   resolved, session_ids, final_stages, stats, rate,
                   previous, db_pool, pools, tasks, heap, frame>>

NextNumberLookup == StatsFetchCallData

SpecNumberLookup == InitNumberLookup /\ [][NextNumberLookup]_vars

----------------------------------------------------------------------------
(* The grouper, the resolver and the aggregation in sequence, on three
   records of one number *)

ThirtySeconds == TicksPerMinute \div 2

\* The final stage of a session as a row of final_stages.
FinalStageRow(call) ==
    [voice_name |-> call.voice_name,
     transferred |-> call.transferred,
     response_category |-> call.category_name]

\* {555, stage 1, T, not transferred, busy, Ava},
\* {555, stage 2, T+30s, transferred, qualified, Ava},
\* {555, stage 1, T+10min, not transferred, no category, no voice}
ScenarioCalls ==
    <<[id |-> 1, number |-> 555, stage |-> Some(1), timestamp |-> 0,
       transferred |-> Some(FALSE), category_name |-> Some("busy"),
       voice_name |-> Some("Ava")],
      [id |-> 2, number |-> 555, stage |-> Some(2), timestamp |-> ThirtySeconds,
       transferred |-> Some(TRUE), category_name |-> Some("qualified"),
       voice_name |-> Some("Ava")],
      [id |-> 3, number |-> 555, stage |-> Some(1), timestamp |-> timedelta(10),
       transferred |-> Some(FALSE), category_name |-> None,
       voice_name |-> None]>>

\* The three records, and those that differ from them in the second
\* record's stage and transferred flag and in the third record's timestamp,
\* category and voice.
ScenarioInputs ==
    {[ScenarioCalls EXCEPT ![2].stage = stage, ![2].transferred = Some(transferred),
                           ![3].timestamp = timestamp, ![3].category_name = category,
                           ![3].voice_name = voice] :
        stage \in {Some(0), Some(2)}, transferred \in BOOLEAN,
        timestamp \in ThirtySeconds..timedelta(10),
        category \in {None, Some("busy"), Some("qualified")},
        voice \in {None, Some("Ava")}}

InitScenario ==
    /\ pc = "start"
    /\ calls \in ScenarioInputs
    /\ duration_minutes = DashboardWindowMinutes
    /\ sessions = << >>
    /\ latest_calls = << >>
    /\ calls_data = << >>
    /\ categories = << >>
    /\ params = None
    /\ resolved = None
    /\ session_ids = << >>
    /\ final_stages = << >>
    /\ stats = << >>
    /\ rate = None
    /\ previous = None
    /\ db_pool = None
    /\ pools = << >>
    /\ tasks = << >>
    /\ heap = << >>
    /\ frame = << >>

\* call_sessions = group_calls_by_session(calls_list, duration_minutes=2)
ScenarioGroup ==
    /\ pc = "start"
    /\ pc' = "scenario_grouped"
    /\ sessions' = group_calls_by_session(calls, duration_minutes)
    /\ UNCHANGED <<calls, duration_minutes, latest_calls, calls_data, categories, params,
                   resolved, session_ids, final_stages, stats, rate,
                   previous, db_pool, pools, tasks, heap, frame>>

\* The final stage of every session.
ScenarioResolve ==
    /\ pc = "scenario_grouped"
    /\ pc' = "scenario_resolved"
    /\ latest_calls' = LatestCalls(sessions)
    /\ UNCHANGED <<calls, duration_minutes, sessions, calls_data, categories, params,
                   resolved, session_ids, final_stages, stats, rate,
                   previous, db_pool, pools, tasks, heap, frame>>

\* The category counts of campaign_metrics.py over the final stages the
\* resolver chose.
ScenarioAggregate ==
    /\ pc = "scenario_resolved"
    /\ pc' = "scenario_aggregated"
    /\ categories' = ClientCategoryCounts(latest_calls)
    /\ UNCHANGED <<calls, duration_minutes, sessions, latest_calls, calls_data, params,
                   resolved, session_ids, final_stages, stats, rate,
                   previous, db_pool, pools, tasks, heap, frame>>

\* The query of stats.py on the same records: its own session numbering,
\* per session any of the rows that may come first under stage DESC NULLS
\* LAST, campaign_totals over those rows and the null-voice ratio of the
\* totals.
ScenarioTotals ==
    /\ pc = "scenario_aggregated"
    /\ pc' = "scenario_totalled"
    /\ \E identified \in {SessionsIdentified(calls)} :
          \E sids \in {SortedSessionIds(identified)} :
             \E f \in [1..Len(sids) -> Range(calls)] :
                /\ \A k \in 1..Len(sids) :
                      f[k] \in FirstRowsOfSession(identified, sids[k])
                /\ final_stages' = [k \in 1..Len(sids) |-> FinalStageRow(f[k])]
                /\ stats' = CampaignTotals(final_stages', QualifiedLiteral)
                /\ rate' = Some(calculate_null_voice_ratio(stats'.null_voice_calls,
                                                           stats'.total_sessions))
    /\ UNCHANGED <<calls, duration_minutes, sessions, latest_calls, calls_data, categories,
                   params, resolved, session_ids,
                   previous, db_pool, pools, tasks, heap, frame>>

NextScenario == ScenarioGroup \/ ScenarioResolve \/ ScenarioAggregate \/ ScenarioTotals

SpecScenario == InitScenario /\ [][NextScenario]_vars

----------------------------------------------------------------------------
(* The grouper and the final stage on records whose timestamp may be None *)

\* sorted(...) and the loop on records whose timestamp may be None.  With
\* one record nothing is compared or subtracted.  With two or more, every
\* record after the first of the sorted list is subtracted from its
\* predecessor's timestamp (call['timestamp'] - last_call['timestamp'], before
\* same_number is used), and a None on either side raises TypeError; so does
\* the sort when it compares None with a timestamp of the same number.
GroupingRaises(cs) == Len(cs) >= 2 /\ \E i \in 1..Len(cs) : cs[i].timestamp = None

\* The records with their timestamps, when none is None.
WithTimestamps(cs) == [i \in 1..Len(cs) |-> [cs[i] EXCEPT !.timestamp = @[1]]]

\* group_calls_by_session on records that do not make it raise; the sessions
\* hold the records as they were given.
GroupOptionalTimestamps(cs, minutes) ==
    IF Len(cs) <= 1 THEN IF cs = << >> THEN << >> ELSE <<cs>>
    ELSE LET grouped == group_calls_by_session(WithTimestamps(cs), minutes)
         IN  List([k \in 1..Len(grouped) |->
                     [i \in 1..Len(grouped[k]) |-> cs[grouped[k][i].id]]])

OptionalTimestamps == {None, Some(0), Some(TicksPerMinute)}

MalformedCallLists(n) ==
    {[i \in 1..n |-> [id |-> i, number |-> f[i][1], timestamp |-> f[i][2],
                      stage |-> f[i][3]]] :
        f \in [1..n -> Numbers \X OptionalTimestamps \X TableStages]}

InitMalformed ==
    /\ pc = "start"
    /\ \E n \in 0..MaxPipeLen : calls \in MalformedCallLists(n)
    /\ duration_minutes = DashboardWindowMinutes
    /\ sessions = << >>
    /\ latest_calls = << >>
    /\ calls_data = << >>
    /\ categories = << >>
    /\ params = None
    /\ resolved = None
    /\ session_ids = << >>
    /\ final_stages = << >>
    /\ stats = << >>
    /\ rate = None
    /\ previous = None
    /\ db_pool = None
    /\ pools = << >>
    /\ tasks = << >>
    /\ heap = << >>
    /\ frame = << >>

\* utils/call.py, group_calls_by_session, then the final stage of each
\* session as the dashboards take it.
GroupMalformed ==
    /\ pc = "start"
    /\ IF GroupingRaises(calls)
       THEN /\ pc' = "raised"
            /\ UNCHANGED <<sessions, latest_calls>>
       ELSE /\ pc' = "grouped_malformed"
            /\ sessions' = GroupOptionalTimestamps(calls, duration_minutes)
            /\ latest_calls' = LatestCalls(sessions')
    /\ UNCHANGED <<calls, duration_minutes, calls_data, categories, params, resolved,
                   session_ids, final_stages, stats, rate,
                   previous, db_pool, pools, tasks, heap, frame>>

\* export.py, group_calls_by_session: the same loop, then latest_calls.
ExportGroupMalformed ==
    /\ pc = "start"
    /\ IF GroupingRaises(calls)
       THEN /\ pc' = "raised"
            /\ UNCHANGED <<sessions, latest_calls>>
       ELSE /\ pc' = "export_malformed"
            /\ sessions' = GroupOptionalTimestamps(calls, ExportWindowMinutes)
            /\ latest_calls' = LatestCalls(sessions')
    /\ UNCHANGED <<calls, duration_minutes, calls_data, categories, params, resolved,
                   session_ids, final_stages, stats, rate,
                   previous, db_pool, pools, tasks, heap, frame>>

NextMalformed == GroupMalformed \/ ExportGroupMalformed

SpecMalformed == InitMalformed /\ [][NextMalformed]_vars

----------------------------------------------------------------------------
(* The objects of a request: lists, dictionaries and call dictionaries *)

\* A heap holds the objects by address: lists[a] is the list object at
\* address a, a sequence of addresses (of call dictionaries, or of lists
\* when it is a list of sessions); dicts[a] is the dictionary at address a,
\* its items in the order of their insertion; records[i] is the call
\* dictionary at address i.
\* calls_list = [dict(call) for call in all_calls]: one call dictionary per
\* row, and the caller's list of them at address 1.
HeapOfCalls(cs) ==
    [lists |-> <<[i \in 1..Len(cs) |-> i]>>, dicts |-> << >>, records |-> cs]

\* [items...]: a list display makes a new list object.
NewList(h, items) ==
    [heap |-> [h EXCEPT !.lists = Append(@, items)], address |-> Len(h.lists) + 1]

\* a.append(x) changes the list object at a.
ListAppend(h, a, x) == [h EXCEPT !.lists[a] = Append(@, x)]

SortedInPlace(h, a, keys) ==
    [heap |-> [h EXCEPT !.lists[a] = StableSortBy(@, keys)], address |-> a]

\* sorted(a, key=...) leaves the list at a as it is and returns a new list
\* object of the same call dictionaries in the order of their keys.
Sorted(h, a, keys) == NewList(h, StableSortBy(h.lists[a], keys))

\* a.sort(key=..., reverse=...) reorders the list object at a.
ListSort(h, a, keys, reverse) ==
    [h EXCEPT !.lists[a] = IF reverse THEN StableSortByDesc(@, keys)
                           ELSE StableSortBy(@, keys)]

\* The call dictionaries of the list at a, in its order.
ListValue(h, a) == [i \in 1..Len(h.lists[a]) |-> h.records[h.lists[a][i]]]

\* The sessions of the list of sessions at a, each with its call dictionaries.
SessionsValue(h, a) == [k \in 1..Len(h.lists[a]) |-> ListValue(h, h.lists[a][k])]

\* utils/call.py, the for loop over sorted_calls from the call at the head
\* of rest on: sessions and current_session are the addresses the two names
\* are bound to; the result is the heap and the binding of current_session
\* the loop leaves.
RECURSIVE GroupLoop(_, _, _, _, _)
GroupLoop(h, rest, minutes, sess, current_session) ==
    IF rest = << >>
    THEN [heap |-> h, current_session |-> current_session]
    ELSE LET call == Head(rest) IN
         IF h.lists[current_session] = << >>
         THEN GroupLoop(ListAppend(h, current_session, call), Tail(rest), minutes,
                        sess, current_session)
         ELSE LET last_call == LastCall(h.lists[current_session])
                  same_number == SameNumber(h.records[call], h.records[last_call])
                  time_diff == h.records[call].timestamp - h.records[last_call].timestamp
                  within_window == WithinWindow(time_diff, minutes)
              IN  IF same_number /\ within_window
                  THEN GroupLoop(ListAppend(h, current_session, call), Tail(rest),
                                 minutes, sess, current_session)
                  ELSE LET started == NewList(ListAppend(h, sess, current_session),
                                              <<call>>)
                       IN  GroupLoop(started.heap, Tail(rest), minutes, sess,
                                     started.address)

DefaultSessions(h) ==
    IF Len(h.lists) < 3 THEN NewList(h, << >>) ELSE [heap |-> h, address |-> 3]

\* sessions = []: a new list object at every call (a default argument
\* sessions=[] would be one list object for all calls).
NewSessions(h) == NewList(h, << >>)

\* utils/call.py, group_calls_by_session(calls, duration_minutes) on the
\* list object at the address calls_list: the heap it leaves and the address of
\* the list of sessions it returns.
GroupCallsBySession(h, calls_list, minutes) ==
    IF h.lists[calls_list] = << >>
    THEN NewList(h, << >>)
    ELSE LET x == ListValue(h, calls_list)
             sorted_calls == Sorted(h, calls_list,
                                    [i \in 1..Len(x) |-> NumberTimestampKey(x[i])])
             sess == NewSessions(sorted_calls.heap)
             current_session == NewList(sess.heap, << >>)
             walked == GroupLoop(current_session.heap,
                                 current_session.heap.lists[sorted_calls.address],
                                 minutes, sess.address, current_session.address)
         IN  [heap |-> IF walked.heap.lists[walked.current_session] # << >>
                       THEN ListAppend(walked.heap, sess.address,
                                       walked.current_session)
                       ELSE walked.heap,
              address |-> sess.address]

\* for session in call_sessions: session_sorted = sorted(session, ...);
\* latest_calls.append(session_sorted[-1]), from the session at the head of
\* rest on.
RECURSIVE SelectLoop(_, _, _)
SelectLoop(h, rest, latest) ==
    IF rest = << >> THEN h
    ELSE LET session == Head(rest)
             x == ListValue(h, session)
             session_sorted == Sorted(h, session, [i \in 1..Len(x) |-> StageKey(x[i])])
         IN  SelectLoop(ListAppend(session_sorted.heap, latest,
                                   LastCall(session_sorted.heap.lists[session_sorted.address])),
                        Tail(rest), latest)

\* latest_calls = []; the loop over the sessions.
SelectFinalStages(h, call_sessions) ==
    LET latest == NewList(h, << >>)
    IN  [heap |-> SelectLoop(latest.heap, latest.heap.lists[call_sessions],
                             latest.address),
         address |-> latest.address]

\* key=lambda x: x['timestamp']
TimestampKey(x) == <<x.timestamp>>

\* combined_counts = {}: a dictionary display makes a new, empty dictionary.
NewDict(h) ==
    [heap |-> [h EXCEPT !.dicts = Append(@, << >>)], address |-> Len(h.dicts) + 1]

\* d.keys()
Keys(d) == {d[i].key : i \in 1..Len(d)}

\* d[key], for a key of d.
Item(d, key) == d[CHOOSE i \in 1..Len(d) : d[i].key = key].value

\* d[key] = value: a new key goes behind the others, a key of d keeps its
\* place.
SetItem(d, key, value) ==
    IF key \in Keys(d)
    THEN [i \in 1..Len(d) |-> IF d[i].key = key THEN [key |-> key, value |-> value]
                              ELSE d[i]]
    ELSE Append(d, [key |-> key, value |-> value])

\* campaign_metrics.py, get_client_campaign, the body of the counting loop
\* for one call that has a combined name.
CountCall(h, call, resolved_category, combined_counts, combined_transferred_counts) ==
    LET seen == IF resolved_category \notin Keys(h.dicts[combined_counts])
                THEN [h EXCEPT
                        !.dicts[combined_counts] = SetItem(@, resolved_category, 0),
                        !.dicts[combined_transferred_counts] =
                            SetItem(@, resolved_category, 0)]
                ELSE h
        counted == [seen EXCEPT !.dicts[combined_counts] =
                       SetItem(@, resolved_category, Item(@, resolved_category) + 1)]
    IN  IF Truthy(h.records[call].transferred)
        THEN [counted EXCEPT !.dicts[combined_transferred_counts] =
                 SetItem(@, resolved_category, Item(@, resolved_category) + 1)]
        ELSE counted

\* for call in base_latest_calls: ..., from the call at the head of rest on.
RECURSIVE CountCalls(_, _, _, _)
CountCalls(h, rest, combined_counts, combined_transferred_counts) ==
    IF rest = << >> THEN h
    ELSE LET call == h.records[Head(rest)] IN
         IF ~TruthyStr(call.category_name)
         THEN CountCalls(h, Tail(rest), combined_counts, combined_transferred_counts)
         ELSE LET resolved_category ==
                      resolve_client_category(call.category_name[1], call)
              IN  IF SkipEmpty(resolved_category)
                  THEN CountCalls(h, Tail(rest), combined_counts,
                                  combined_transferred_counts)
                  ELSE CountCalls(CountCall(h, Head(rest), resolved_category,
                                            combined_counts,
                                            combined_transferred_counts),
                                  Tail(rest), combined_counts,
                                  combined_transferred_counts)

\* for combined_name in sorted(combined_counts.keys()):
\*     all_categories.append(CategoryCount(...))
AllCategories(combined_counts, combined_transferred_counts) ==
    LET names == SortedNames(Keys(combined_counts))
    IN  [k \in 1..Len(names) |->
            [name |-> names[k],
             count |-> Item(combined_counts, names[k]),
             transferred_count |-> Item(combined_transferred_counts, names[k])]]

----------------------------------------------------------------------------
(* The pipeline (group, final stage, normalize, count) run twice on one list *)

\* A raw category with a transferred flag.
PipelineCategories ==
    {<<None, FALSE>>, <<Some("busy"), TRUE>>, <<Some("busy"), FALSE>>,
     <<Some("qualified"), TRUE>>}

CategorizedCallLists(n) ==
    {[i \in 1..n |-> [id |-> i, number |-> f[i][1], timestamp |-> f[i][2],
                      stage |-> f[i][3], category_name |-> f[i][4][1],
                      transferred |-> Some(f[i][4][2])]] :
        f \in [1..n -> Numbers \X RowTimes \X {Some(1), Some(2)} \X PipelineCategories]}

InitTwice ==
    /\ pc = "start"
    /\ \E n \in 0..MaxPipeLen : calls \in CategorizedCallLists(n)
    /\ duration_minutes = DashboardWindowMinutes
    /\ sessions = << >>
    /\ latest_calls = << >>
    /\ calls_data = << >>
    /\ categories = << >>
    /\ params = None
    /\ resolved = None
    /\ session_ids = << >>
    /\ final_stages = << >>
    /\ stats = << >>
    /\ rate = None
    /\ previous = None
    /\ db_pool = None
    /\ pools = << >>
    /\ tasks = << >>
    /\ heap = HeapOfCalls(calls)
    /\ frame = [calls_list |-> 1]

\* combined_counts = {}; combined_transferred_counts = {}; the counting loop
\* over the list at base_latest_calls; all_categories.  The result is the
\* heap the statements leave, the addresses of the two dictionaries and the
\* category entries.
CountCategories(h, base_latest_calls) ==
    LET combined_counts == NewDict(h)
        combined_transferred_counts == NewDict(combined_counts.heap)
        counted == CountCalls(combined_transferred_counts.heap,
                              h.lists[base_latest_calls],
                              combined_counts.address,
                              combined_transferred_counts.address)
    IN  [heap |-> counted,
         combined_counts |-> combined_counts.address,
         combined_transferred_counts |-> combined_transferred_counts.address,
         all_categories |->
             AllCategories(counted.dicts[combined_counts.address],
                           counted.dicts[combined_transferred_counts.address])]

\* One run of the pipeline on the list object at the address calls_list, in
\* the heap h as the run finds it: group_calls_by_session (utils/call.py),
\* the final stage of every session, and the counting loop and category
\* list of get_client_campaign (campaign_metrics.py 391-425).  The result
\* is the heap the run leaves, the addresses its names are bound to at the
\* end, and the category entries it returns.
Pipeline(h, calls_list, minutes) ==
    LET call_sessions == GroupCallsBySession(h, calls_list, minutes)
        base_latest_calls == SelectFinalStages(call_sessions.heap, call_sessions.address)
        counted == CountCategories(base_latest_calls.heap, base_latest_calls.address)
    IN  [heap |-> counted.heap,
         frame |-> [calls_list |-> calls_list,
                    call_sessions |-> call_sessions.address,
                    base_latest_calls |-> base_latest_calls.address,
                    combined_counts |-> counted.combined_counts,
                    combined_transferred_counts |-> counted.combined_transferred_counts],
         all_categories |-> counted.all_categories]

\* The first run of the pipeline on the caller's list.  sessions,
\* latest_calls and categories are what the run returns, read from the heap
\* the run leaves.
FirstRun ==
    /\ pc = "start"
    /\ pc' = "ran_once"
    /\ \E run \in {Pipeline(heap, frame.calls_list, duration_minutes)} :
          /\ heap' = run.heap
          /\ frame' = run.frame
          /\ sessions' = SessionsValue(run.heap, run.frame.call_sessions)
          /\ latest_calls' = ListValue(run.heap, run.frame.base_latest_calls)
          /\ categories' = run.all_categories
    /\ UNCHANGED <<calls, duration_minutes, calls_data, params, resolved, session_ids,
                   final_stages, stats, rate, previous, db_pool, pools, tasks>>

\* The second run, on the same list object in the heap the first run left,
\* with every object of the first run still in it; previous keeps what the
\* first run returned.
SecondRun ==
    /\ pc = "ran_once"
    /\ pc' = "ran_twice"
    /\ previous' = Some([sessions |-> sessions, latest_calls |-> latest_calls,
                         categories |-> categories])
    /\ \E run \in {Pipeline(heap, frame.calls_list, duration_minutes)} :
          /\ heap' = run.heap
          /\ frame' = run.frame
          /\ sessions' = SessionsValue(run.heap, run.frame.call_sessions)
          /\ latest_calls' = ListValue(run.heap, run.frame.base_latest_calls)
          /\ categories' = run.all_categories
    /\ UNCHANGED <<calls, duration_minutes, calls_data, params, resolved, session_ids,
                   final_stages, stats, rate, db_pool, pools, tasks>>

NextTwice == FirstRun \/ SecondRun

SpecTwice == InitTwice /\ [][NextTwice]_vars

----------------------------------------------------------------------------
(* What the grouper and the final-stage selection leave of their arguments *)

InitFrame ==
    /\ pc = "start"
    /\ \E n \in 0..MaxPipeLen : calls \in PipelineCallLists(n)
    /\ duration_minutes = DashboardWindowMinutes
    /\ sessions = << >>
    /\ latest_calls = << >>
    /\ calls_data = << >>
    /\ categories = << >>
    /\ params = None
    /\ resolved = None
    /\ session_ids = << >>
    /\ final_stages = << >>
    /\ stats = << >>
    /\ rate = None
    /\ previous = None
    /\ db_pool = None
    /\ pools = << >>
    /\ tasks = << >>
    /\ heap = HeapOfCalls(calls)
    /\ frame = [calls_list |-> 1]

\* call_sessions = group_calls_by_session(calls_list, duration_minutes=2).
\* previous keeps the heap as it was before the call; calls stays the value
\* the caller's list had at the start.
FrameGroup ==
    /\ pc = "start"
    /\ pc' = "frame_grouped"
    /\ previous' = Some(heap)
    /\ \E call_sessions \in {GroupCallsBySession(heap, frame.calls_list, duration_minutes)} :
          /\ heap' = call_sessions.heap
          /\ frame' = [calls_list |-> frame.calls_list,
                       call_sessions |-> call_sessions.address]
          /\ sessions' = SessionsValue(call_sessions.heap, call_sessions.address)
    /\ UNCHANGED <<calls, duration_minutes, latest_calls, calls_data, categories, params,
                   resolved, session_ids, final_stages, stats, rate, db_pool, pools, tasks>>

\* campaigns.py, get_client_campaign: sorted(session, ...)[-1] of every
\* session, then latest_calls.sort(...) on the handler's own list.  previous
\* keeps the heap as it was before the selection.
FrameSelect ==
    /\ pc = "frame_grouped"
    /\ pc' = "frame_selected"
    /\ previous' = Some(heap)
    /\ \E sort_order \in {"asc", "desc"} :
       \E selected \in {SelectFinalStages(heap, frame.call_sessions)} :
       \E x \in {ListValue(selected.heap, selected.address)} :
       \E ordered \in {ListSort(selected.heap, selected.address,
                                [i \in 1..Len(x) |-> TimestampKey(x[i])],
                                sort_order = "desc")} :
          /\ heap' = ordered
          /\ frame' = [calls_list |-> frame.calls_list,
                       call_sessions |-> frame.call_sessions,
                       latest_calls |-> selected.address]
          /\ latest_calls' = ListValue(ordered, selected.address)
    /\ UNCHANGED <<calls, duration_minutes, sessions, calls_data, categories, params,
                   resolved, session_ids, final_stages, stats, rate, db_pool, pools, tasks>>

NextFrame == FrameGroup \/ FrameSelect

SpecFrame == InitFrame /\ [][NextFrame]_vars

----------------------------------------------------------------------------
(* campaign_metrics.py, get_admin_campaign_dashboard: the stage filters *)

\* reverse_mapping[combined]: the raw names the admin mapping sends to it.
AdminReverseMapping(combined) ==
    {orig \in DOMAIN ADMIN_CATEGORY_MAPPING : ADMIN_CATEGORY_MAPPING[orig] = combined}

\* original_names: the names of reverse_mapping for a combined name, the
\* name itself for any other.
OriginalNames(required_categories) ==
    UNION {IF AdminReverseMapping(cat) # {} THEN AdminReverseMapping(cat) ELSE {cat} :
              cat \in Range(required_categories)}

\* stage_map[stage_num]: the calls of the session at the stage, `stage or 0`.
StageCalls(session, stage_num) ==
    SelectSeq(session, LAMBDA call : OrZero(call.stage) = stage_num)

\* stage_num in stage_map and any(call['category_name'] in original_names ...)
MatchesStageFilter(session, stage_filter) ==
    /\ StageCalls(session, stage_filter.stage) # << >>
    /\ \E call \in Range(StageCalls(session, stage_filter.stage)) :
          /\ call.category_name # None
          /\ call.category_name[1] \in OriginalNames(stage_filter.categories)

MatchesAnyFilter(session, parsed_stage_filters) ==
    \E stage_filter \in Range(parsed_stage_filters) :
        MatchesStageFilter(session, stage_filter)

\* matches_all_filters
MatchesAllFilters(session, parsed_stage_filters) ==
    \A stage_filter \in Range(parsed_stage_filters) :
        MatchesStageFilter(session, stage_filter)

\* if parsed_stage_filters: call_sessions = filtered_sessions
ApplyStageFilters(call_sessions, parsed_stage_filters) ==
    IF parsed_stage_filters = << >> THEN call_sessions
    ELSE SelectSeq(call_sessions,
                   LAMBDA session : MatchesAllFilters(session, parsed_stage_filters))

FilterCategories == {None, Some("honeypot_hardcoded"), Some("busy")}

\* n records, cut into sessions behind the places of cuts.
SessionsCutAt(flat, cuts) ==
    LET starts == {1} \cup {c + 1 : c \in cuts}
        nth(k) == CHOOSE i \in starts : Cardinality({j \in starts : j < i}) = k - 1
        last(k) == IF k = Cardinality(starts) THEN Len(flat) ELSE nth(k + 1) - 1
    IN  IF flat = << >> THEN << >>
        ELSE [k \in 1..Cardinality(starts) |-> SubSeq(flat, nth(k), last(k))]

FilterSessionLists(n) ==
    {SessionsCutAt([i \in 1..n |-> [id |-> i, stage |-> f[i][1], category_name |-> f[i][2]]],
                   cuts) :
        f \in [1..n -> TableStages \X FilterCategories], cuts \in SUBSET (1..n - 1)}

StageFilters == [stage : {0, 1}, categories : {<<"Honeypot">>, <<"busy">>}]

StageFilterLists ==
    {<< >>} \cup {<<f>> : f \in StageFilters} \cup {<<f, g>> : f, g \in StageFilters}

InitStageFilter ==
    /\ pc = "start"
    /\ calls = << >>
    /\ duration_minutes = DashboardWindowMinutes
    /\ \E n \in 0..MaxPipeLen : sessions \in FilterSessionLists(n)
    /\ latest_calls = << >>
    /\ calls_data = << >>
    /\ categories = << >>
    /\ params \in [stage_filters : StageFilterLists]
    /\ resolved = None
    /\ session_ids = << >>
    /\ final_stages = << >>
    /\ stats = << >>
    /\ rate = None
    /\ previous = None
    /\ db_pool = None
    /\ pools = << >>
    /\ tasks = << >>
    /\ heap = << >>
    /\ frame = << >>

\* unfiltered_sessions = call_sessions.copy(), then the stage filters.
AdminStageFilters ==
    /\ pc = "start"
    /\ pc' = "stage_filtered"
    /\ previous' = Some(sessions)
    /\ sessions' = ApplyStageFilters(sessions, params.stage_filters)
    /\ UNCHANGED <<calls, duration_minutes, latest_calls, calls_data, categories, params,
                   resolved, session_ids, final_stages, stats, rate, db_pool, pools, tasks, heap, frame>>

NextStageFilter == AdminStageFilters

SpecStageFilter == InitStageFilter /\ [][NextStageFilter]_vars

----------------------------------------------------------------------------
(* campaign_metrics.py, get_client_campaign: the pages of the listing *)

MaxPageSize == 2

\* total_pages = (total_calls + page_size - 1) // page_size if total_calls > 0 else 1
TotalPages(total_calls, page_size) ==
    IF total_calls > 0 THEN (total_calls + page_size - 1) \div page_size ELSE 1

\* The loop that builds calls_data raises on a call of the page that is
\* listed (its category does not resolve to the empty string) and whose
\* transferred is NULL: CallRecord(..., transferred=call.get('transferred',
\* False)) finds the key, and the field `transferred: bool` refuses None.
ClientCallRecordsRaise(paginated_calls) ==
    \E k \in 1..Len(paginated_calls) :
        /\ resolve_client_category(OrUnknown(paginated_calls[k].category_name),
                                   paginated_calls[k]) # ""
        /\ paginated_calls[k].transferred = None

\* calls_data: a CallRecord for every listed call of the page.
ClientCallRecords(paginated_calls) ==
    LET kept == SelectSeq(paginated_calls,
                          LAMBDA call :
                              resolve_client_category(OrUnknown(call.category_name), call) # "")
    IN  IF ClientCallRecordsRaise(paginated_calls) THEN ValidationError
        ELSE [k \in 1..Len(kept) |->
                 [id |-> kept[k].id,
                  category |-> resolve_client_category(OrUnknown(kept[k].category_name),
                                                       kept[k]),
                  transferred |-> kept[k].transferred[1]]]

\* The calls of one page, before they are formatted.
PaginatedCalls(all_latest_calls, page, page_size, sort_order) ==
    LET sorted_calls == SortByTimestamp(all_latest_calls, sort_order)
        start_idx == (page - 1) * page_size
    IN  Slice(sorted_calls, start_idx, start_idx + page_size)

\* The response for one page: calls and pagination.
ClientCampaignPage(all_latest_calls, page, page_size, sort_order) ==
    LET total_calls == Len(all_latest_calls)
        paginated_calls == PaginatedCalls(all_latest_calls, page, page_size, sort_order)
    IN  IF ClientCallRecordsRaise(paginated_calls) THEN ValidationError
        ELSE [calls |-> ClientCallRecords(paginated_calls),
              pagination |-> [page |-> page,
                              page_size |-> page_size,
                              total_records |-> total_calls,
                              total_pages |-> TotalPages(total_calls, page_size)]]

\* The final stages of the sessions, one tick apart.
ListedFinalStages(n) ==
    {[i \in 1..n |-> [id |-> i, category_name |-> f[i][1], transferred |-> f[i][2],
                      timestamp |-> i]] :
        f \in [1..n -> {None, Some("busy"), Some("repeatpitch")} \X OptionalBooleans]}

InitClientPages ==
    /\ pc = "start"
    /\ calls = << >>
    /\ duration_minutes = DashboardWindowMinutes
    /\ sessions = << >>
    /\ \E n \in 0..MaxLen : latest_calls \in ListedFinalStages(n)
    /\ calls_data = << >>
    /\ categories = << >>
    /\ params \in [page_size : 1..MaxPageSize, sort_order : {"asc", "desc"}]
    /\ resolved = None
    /\ session_ids = << >>
    /\ final_stages = << >>
    /\ stats = << >>
    /\ rate = None
    /\ previous = None
    /\ db_pool = None
    /\ pools = << >>
    /\ tasks = << >>
    /\ heap = << >>
    /\ frame = << >>

\* get_client_campaign(page=1): the first page.  previous counts the call
\* records listed so far.  A page with a listed call whose transferred is
\* NULL raises and answers nothing.
ClientFirstPage ==
    /\ pc = "start"
    /\ IF ClientCallRecordsRaise(PaginatedCalls(latest_calls, 1, params.page_size,
                                             params.sort_order))
       THEN /\ pc' = "raised"
            /\ UNCHANGED <<calls_data, stats, previous>>
       ELSE LET response == ClientCampaignPage(latest_calls, 1, params.page_size,
                                               params.sort_order)
            IN  /\ pc' = "client_page"
                /\ calls_data' = response.calls
                /\ stats' = response.pagination
                /\ previous' = Some(Len(response.calls))
    /\ UNCHANGED <<calls, duration_minutes, sessions, latest_calls, categories, params,
                   resolved, session_ids, final_stages, rate, db_pool, pools, tasks, heap, frame>>

\* get_client_campaign(page=page + 1) while has_next (page < total_pages).
ClientNextPage ==
    /\ pc = "client_page"
    /\ stats.page < stats.total_pages
    /\ IF ClientCallRecordsRaise(PaginatedCalls(latest_calls, stats.page + 1,
                                             params.page_size, params.sort_order))
       THEN /\ pc' = "raised"
            /\ UNCHANGED <<calls_data, stats, previous>>
       ELSE LET response == ClientCampaignPage(latest_calls, stats.page + 1,
                                               params.page_size, params.sort_order)
            IN  /\ pc' = "client_page"
                /\ calls_data' = response.calls
                /\ stats' = response.pagination
                /\ previous' = Some(previous[1] + Len(response.calls))
    /\ UNCHANGED <<calls, duration_minutes, sessions, latest_calls, categories, params,
                   resolved, session_ids, final_stages, rate, db_pool, pools, tasks, heap, frame>>

NextClientPages == ClientFirstPage \/ ClientNextPage

SpecClientPages == InitClientPages /\ [][NextClientPages]_vars

----------------------------------------------------------------------------
(* call_lookup.py, lookup_calls_json: the numbers found and not found.  A
   character is its Unicode code point and a text the list of its
   characters: "5" is 53, "-" is 45, "," is 44, the line feed is 10, the
   space is 32, the e with acute accent is 233 and the fullwidth digit five
   is 65301. *)

MaxCells == 2

MaxNumberChars == 3

\* The characters 0-9.
AsciiDigits == 48..57

\* The ranges of the characters str.isdigit accepts (Unicode 14.0): 0-9,
\* the superscript and subscript digits, the digits of the other scripts,
\* the fullwidth, circled, parenthesized and mathematical digits.
DigitRanges ==
    {<<48, 57>>, <<178, 179>>, <<185, 185>>, <<1632, 1641>>, <<1776, 1785>>,
     <<1984, 1993>>, <<2406, 2415>>, <<2534, 2543>>, <<2662, 2671>>,
     <<2790, 2799>>, <<2918, 2927>>, <<3046, 3055>>, <<3174, 3183>>,
     <<3302, 3311>>, <<3430, 3439>>, <<3558, 3567>>, <<3664, 3673>>,
     <<3792, 3801>>, <<3872, 3881>>, <<4160, 4169>>, <<4240, 4249>>,
     <<4969, 4977>>, <<6112, 6121>>, <<6160, 6169>>, <<6470, 6479>>,
     <<6608, 6618>>, <<6784, 6793>>, <<6800, 6809>>, <<6992, 7001>>,
     <<7088, 7097>>, <<7232, 7241>>, <<7248, 7257>>, <<8304, 8304>>,
     <<8308, 8313>>, <<8320, 8329>>, <<9312, 9320>>, <<9332, 9340>>,
     <<9352, 9360>>, <<9450, 9450>>, <<9461, 9469>>, <<9471, 9471>>,
     <<10102, 10110>>, <<10112, 10120>>, <<10122, 10130>>, <<42528, 42537>>,
     <<43216, 43225>>, <<43264, 43273>>, <<43472, 43481>>, <<43504, 43513>>,
     <<43600, 43609>>, <<44016, 44025>>, <<65296, 65305>>, <<66720, 66729>>,
     <<68160, 68163>>, <<68912, 68921>>, <<69216, 69224>>, <<69714, 69722>>,
     <<69734, 69743>>, <<69872, 69881>>, <<69942, 69951>>, <<70096, 70105>>,
     <<70384, 70393>>, <<70736, 70745>>, <<70864, 70873>>, <<71248, 71257>>,
     <<71360, 71369>>, <<71472, 71481>>, <<71904, 71913>>, <<72016, 72025>>,
     <<72784, 72793>>, <<73040, 73049>>, <<73120, 73129>>, <<92768, 92777>>,
     <<92864, 92873>>, <<93008, 93017>>, <<120782, 120831>>,
     <<123200, 123209>>, <<123632, 123641>>, <<125264, 125273>>,
     <<127232, 127242>>, <<130032, 130041>>}

\* str.isdigit on one character.
IsDigit(ch) == \E r \in DigitRanges : r[1] <= ch /\ ch <= r[2]

\* str.isspace on one character.
IsSpace(ch) ==
    \E r \in {<<9, 13>>, <<28, 32>>, <<133, 133>>, <<160, 160>>, <<5760, 5760>>,
              <<8192, 8202>>, <<8232, 8233>>, <<8239, 8239>>, <<8287, 8287>>,
              <<12288, 12288>>} : r[1] <= ch /\ ch <= r[2]

\* normalize_phone_number: ''.join(filter(str.isdigit, number))
normalize_phone_number(number) == SelectSeq(number, LAMBDA ch : IsDigit(ch))

\* n.strip(): the text without the whitespace at its two ends.
Strip(n) ==
    LET kept == {i \in 1..Len(n) : ~IsSpace(n[i])}
    IN  IF kept = {} THEN << >>
        ELSE LET first == CHOOSE i \in kept : \A j \in kept : i <= j
                 last == CHOOSE i \in kept : \A j \in kept : j <= i
             IN  List([k \in 1..last - first + 1 |-> n[first + k - 1]])

\* text.split(sep): the texts between the occurrences of sep, the empty
\* ones included.
Split(text, sep) ==
    LET cuts == {i \in 1..Len(text) : text[i] = sep}
        cut(k) == IF k = 0 THEN 0
                  ELSE IF k = Cardinality(cuts) + 1 THEN Len(text) + 1
                  ELSE CHOOSE i \in cuts : Cardinality({j \in cuts : j < i}) = k - 1
    IN  [k \in 1..Cardinality(cuts) + 1 |->
            List([p \in 1..cut(k) - cut(k - 1) - 1 |-> text[cut(k - 1) + p]])]

\* csv.reader(io.StringIO(text)) on a text that holds no quote character
\* and no carriage return: the lines end at the line feeds, the text after
\* the last line feed is a line when it is not empty, the cells of a line
\* end at the commas, and an empty line is a row without cells.
CsvReader(text) ==
    LET parts == Split(text, 10)
        lines == IF parts[Len(parts)] = << >>
                 THEN List(SubSeq(parts, 1, Len(parts) - 1))
                 ELSE parts
    IN  [k \in 1..Len(lines) |->
            IF lines[k] = << >> THEN << >> ELSE Split(lines[k], 44)]

RECURSIVE Concat(_)
\* The lists of a list, one after the other.
Concat(lists) ==
    IF lists = << >> THEN << >> ELSE Head(lists) \o Concat(Tail(lists))

\* [normalize_phone_number(n.strip()) for n in cell.split(',') if n.strip()]
CellNumbers(cell) ==
    LET parts == Split(cell, 44)
        kept == SelectSeq(parts, LAMBDA n : Strip(n) # << >>)
    IN  [k \in 1..Len(kept) |-> normalize_phone_number(Strip(kept[k]))]

\* raise HTTPException(status_code=400, detail=...)
HTTPException(status_code, detail) == [status_code |-> status_code, detail |-> detail]

\* The bytes 0x80-0xBF, which continue a character.
IsContinuation(b) == 128 <= b /\ b <= 191

\* The second byte of a character that starts with b1 is refused: it does
\* not continue a character, or the two start an overlong form, a
\* surrogate or a code point above U+10FFFF.
BadSecondByte(b1, b2) ==
    \/ ~IsContinuation(b2)
    \/ b1 = 224 /\ b2 < 160
    \/ b1 = 237 /\ b2 >= 160
    \/ b1 = 240 /\ b2 < 144
    \/ b1 = 244 /\ b2 >= 144

\* UnicodeDecodeError('utf-8', content, start, end, reason): the positions
\* count from 0 and end is the one after the last refused byte.
UnicodeDecodeError(start, end, reason) ==
    [raises |-> TRUE, start |-> start, end |-> end, reason |-> reason]

\* A character read: its code point and the number of its bytes.
Character(ch, size) == [raises |-> FALSE, ch |-> ch, size |-> size]

\* The code point of a character of two, three and four bytes.
CodePoint2(b1, b2) == (b1 - 192) * 64 + (b2 - 128)

CodePoint3(b1, b2, b3) == (b1 - 224) * 4096 + (b2 - 128) * 64 + (b3 - 128)

CodePoint4(b1, b2, b3, b4) ==
    (b1 - 240) * 262144 + (b2 - 128) * 4096 + (b3 - 128) * 64 + (b4 - 128)

\* The bytes from s (counted from 1) to the end of content stop before the
\* character that starts at s is whole.
EndOfData(content, s) ==
    UnicodeDecodeError(s - 1, Len(content), "unexpected end of data")

\* The byte after the first valid bytes of the character that starts at s
\* does not continue it.
InvalidContinuation(s, valid) ==
    UnicodeDecodeError(s - 1, s - 1 + valid, "invalid continuation byte")

\* A character of two bytes (C2-DF).
DecodeChar2(content, s) ==
    IF Len(content) < s + 1 THEN EndOfData(content, s)
    ELSE IF BadSecondByte(content[s], content[s + 1]) THEN InvalidContinuation(s, 1)
    ELSE Character(CodePoint2(content[s], content[s + 1]), 2)

\* A character of three bytes (E0-EF).
DecodeChar3(content, s) ==
    IF Len(content) < s + 1 THEN EndOfData(content, s)
    ELSE IF BadSecondByte(content[s], content[s + 1]) THEN InvalidContinuation(s, 1)
    ELSE IF Len(content) < s + 2 THEN EndOfData(content, s)
    ELSE IF ~IsContinuation(content[s + 2]) THEN InvalidContinuation(s, 2)
    ELSE Character(CodePoint3(content[s], content[s + 1], content[s + 2]), 3)

\* A character of four bytes (F0-F4).
DecodeChar4(content, s) ==
    IF Len(content) < s + 1 THEN EndOfData(content, s)
    ELSE IF BadSecondByte(content[s], content[s + 1]) THEN InvalidContinuation(s, 1)
    ELSE IF Len(content) < s + 2 THEN EndOfData(content, s)
    ELSE IF ~IsContinuation(content[s + 2]) THEN InvalidContinuation(s, 2)
    ELSE IF Len(content) < s + 3 THEN EndOfData(content, s)
    ELSE IF ~IsContinuation(content[s + 3]) THEN InvalidContinuation(s, 3)
    ELSE Character(CodePoint4(content[s], content[s + 1], content[s + 2],
                              content[s + 3]), 4)

\* The character that starts at the byte s of content (counted from 1), or
\* the error of the decoder: 80-C1 and F5-FF start no character.
DecodeChar(content, s) ==
    IF content[s] < 128 THEN Character(content[s], 1)
    ELSE IF content[s] < 194 \/ content[s] > 244
    THEN UnicodeDecodeError(s - 1, s, "invalid start byte")
    ELSE IF content[s] < 224 THEN DecodeChar2(content, s)
    ELSE IF content[s] < 240 THEN DecodeChar3(content, s)
    ELSE DecodeChar4(content, s)

RECURSIVE DecodeFrom(_, _, _)
\* The decoder's loop: the text read before the byte s, then the rest.
DecodeFrom(content, s, text) ==
    IF s > Len(content) THEN [raises |-> FALSE, text |-> text]
    ELSE LET c == DecodeChar(content, s)
         IN  IF c.raises THEN c
             ELSE DecodeFrom(content, s + c.size, Append(text, c.ch))

\* content.decode('utf-8'): the text of the bytes, or the
\* UnicodeDecodeError of the first byte that is not UTF-8.
decode(content) == DecodeFrom(content, 1, << >>)

HexDigits == <<"0", "1", "2", "3", "4", "5", "6", "7",
               "8", "9", "a", "b", "c", "d", "e", "f">>

\* The byte as two hexadecimal digits.
Hex(b) == HexDigits[(b \div 16) + 1] \o HexDigits[(b % 16) + 1]

\* str(e) of the UnicodeDecodeError e raised on content.
str(content, e) ==
    IF e.end = e.start + 1
    THEN "'utf-8' codec can't decode byte 0x" \o Hex(content[e.start + 1])
             \o " in position " \o ToString(e.start) \o ": " \o e.reason
    ELSE "'utf-8' codec can't decode bytes in position " \o ToString(e.start)
             \o "-" \o ToString(e.end - 1) \o ": " \o e.reason

\* The try block of parse_csv_numbers raises.
ParseCsvNumbersRaises(content) == decode(content).raises

\* The loops of parse_csv_numbers on the decoded text: read the rows,
\* normalize the stripped pieces of every cell, then keep the non-empty
\* numbers without duplicates in the order first seen.
UniqueNumbers(text) ==
    LET rows == CsvReader(text)
        numbers == Concat([r \in 1..Len(rows) |->
                       Concat([c \in 1..Len(rows[r]) |-> CellNumbers(rows[r][c])])])
        firsts == {i \in 1..Len(numbers) :
                      /\ numbers[i] # << >>
                      /\ \A j \in 1..i - 1 : numbers[j] # numbers[i]}
        nth(k) == CHOOSE i \in firsts : Cardinality({j \in firsts : j < i}) = k - 1
    IN  List([k \in 1..Cardinality(firsts) |-> numbers[nth(k)]])

\* parse_csv_numbers: decode and run the loops.  content.decode('utf-8')
\* raises on bytes that are not UTF-8, and the exception becomes a 400 whose
\* detail ends with the exception's text; nothing else of the try block
\* raises on a text without quotes and carriage returns.
parse_csv_numbers(content) ==
    IF ParseCsvNumbersRaises(content)
    THEN HTTPException(400, "Failed to parse CSV file: " \o str(content, decode(content)))
    ELSE UniqueNumbers(decode(content).text)

\* ORDER BY c.number, c.call_id, c.stage: texts in the order of their
\* code points.
OrderByNumberCallIdStage(rows) ==
    StableSortBy(rows,
        [i \in 1..Len(rows) |->
            [p \in 1..MaxNumberChars |->
                IF p <= Len(rows[i].number) THEN rows[i].number[p] ELSE 0]
            \o NullsLastKey(rows[i].call_id) \o NullsLastKey(rows[i].stage)])

\* regexp_replace(c.number, '[^0-9]', '', 'g'): the characters 0-9 of the
\* stored number.
RegexpDigits(number) == SelectSeq(number, LAMBDA ch : ch \in AsciiDigits)

\* WHERE regexp_replace(c.number, '[^0-9]', '', 'g') = ANY($1)
WhereNumberAmong(rows, numbers) ==
    SelectSeq(rows, LAMBDA c : RegexpDigits(c.number) \in Range(numbers))

\* fetch_call_data's results for rows that all make a CallStageData: one per
\* call_id group, then one per row without call_id.
LookupResults(all_calls) ==
    LET calls_with_id == SelectSeq(all_calls, LAMBDA c : c.call_id # None)
        calls_without_id == CallsWithoutId(all_calls)
        grouped_calls == group_calls_by_call_id(calls_with_id)
    IN  [k \in 1..Len(grouped_calls) |->
            GroupLookupResult(grouped_calls[k].call_id, grouped_calls[k].calls)]
        \o [i \in 1..Len(calls_without_id) |-> SingleLookupResult(calls_without_id[i])]

\* found_numbers: normalize_phone_number of the number of every result.
NormalizedFoundNumbers(results) ==
    {normalize_phone_number(results[k].number) : k \in 1..Len(results)}

\* not_found = [num for num in numbers if num not in found_numbers]
NotFound(numbers, results) ==
    SelectSeq(numbers, LAMBDA num : num \notin NormalizedFoundNumbers(results))

\* numbers_found=len(set(r.number for r in results))
NumbersFound(results) == Cardinality({results[k].number : k \in 1..Len(results)})

\* CallLookupResponse(...)
CallLookupResponse(numbers, results) ==
    [total_numbers_searched |-> Len(numbers),
     numbers_found |-> NumbersFound(results),
     numbers_not_found |-> Len(NotFound(numbers, results)),
     not_found_numbers |-> NotFound(numbers, results)]

\* file.filename.endswith(suffix)
EndsWith(filename, suffix) ==
    /\ Len(suffix) <= Len(filename)
    /\ \A p \in 1..Len(suffix) :
           filename[Len(filename) - Len(suffix) + p] = suffix[p]

\* Stored numbers in two formats of the same digits ("55" and "5-5"), and
\* one whose second digit is not among 0-9 (5 and the fullwidth five).
StoredNumbers == {<<53, 53>>, <<53, 45, 53>>, <<53, 65301>>}

\* number, call_id and transferred of a stored row: every number with and
\* without call_id, and a row whose transferred is NULL.
StoredRowFields ==
    (StoredNumbers \X {None, Some(1)} \X {Some(FALSE)})
        \cup {<<<<53, 53>>, None, None>>}

StoredCallTables(n) ==
    {[i \in 1..n |-> [id |-> i, number |-> f[i][1], call_id |-> f[i][2],
                      stage |-> Some(0), transferred |-> f[i][3],
                      timestamp |-> Some(i)]] :
        f \in [1..n -> StoredRowFields]}

\* The bytes of a cell of the uploaded file: "5", " 5-5", 5 with the
\* fullwidth five (EF BC 95), or the e with acute accent (C3 A9).
CsvFields == {<<53>>, <<32, 53, 45, 53>>, <<53, 239, 188, 149>>, <<195, 169>>}

\* The bytes of n cells, each followed by a comma or a line feed but the
\* last.
CsvTexts(n) ==
    {Concat([k \in 1..n |-> IF k < n THEN Append(f[k], s[k]) ELSE f[k]]) :
        f \in [1..n -> CsvFields], s \in [1..n - 1 -> {44, 10}]}

\* Bytes that are not UTF-8: FF, a lone C3, "5," and a Latin-1 e with
\* acute accent, E2 82 without its third byte, E2 82 before "(", and the
\* surrogate ED A0 80.
UndecodableContents ==
    {<<255>>, <<195>>, <<53, 44, 233>>, <<226, 130>>, <<226, 130, 40>>, <<237, 160, 128>>}

\* The uploaded bytes: a UTF-8 text, or bytes that do not decode.
FileContents(n) == CsvTexts(n) \cup UndecodableContents

\* "n.csv" and "n.txt"
FileNames == {<<110, 46, 99, 115, 118>>, <<110, 46, 116, 120, 116>>}

InitLookupJson ==
    /\ pc = "start"
    /\ \E n \in 0..MaxPipeLen : calls \in StoredCallTables(n)
    /\ \E n \in 0..MaxCells : \E content \in FileContents(n) : \E filename \in FileNames :
          params = [filename |-> filename, content |-> content]
    /\ duration_minutes = DashboardWindowMinutes
    /\ sessions = << >>
    /\ latest_calls = << >>
    /\ calls_data = << >>
    /\ categories = << >>
    /\ resolved = None
    /\ session_ids = << >>
    /\ final_stages = << >>
    /\ stats = << >>
    /\ rate = None
    /\ previous = None
    /\ db_pool = None
    /\ pools = << >>
    /\ tasks = << >>
    /\ heap = << >>
    /\ frame = << >>

\* lookup_calls_json: 400 when the file name does not end in .csv (337),
\* when the file does not parse (72-76) and when it has no number (347);
\* else fetch and answer, or raise when fetch_call_data raises.  The three awaits (file.read, get_db,
\* fetch_call_data) carry only the coroutine's own values across, so the
\* handler is one step.
LookupCallsJson ==
    /\ pc = "start"
    /\ IF ~EndsWith(params.filename, <<46, 99, 115, 118>>)
       THEN /\ pc' = "bad_request_file_type"
            /\ UNCHANGED <<calls_data, stats, session_ids>>
       ELSE IF ParseCsvNumbersRaises(params.content)
       THEN /\ pc' = "bad_request_parse"
            /\ UNCHANGED <<calls_data, stats, session_ids>>
       ELSE LET numbers == parse_csv_numbers(params.content)
                all_calls == OrderByNumberCallIdStage(WhereNumberAmong(calls, numbers))
                results == LookupResults(all_calls)
            IN  IF numbers = << >>
                THEN /\ pc' = "bad_request_no_numbers"
                     /\ UNCHANGED <<calls_data, stats, session_ids>>
                ELSE IF \E call \in Range(all_calls) : CallStageDataRaises(call)
                THEN /\ pc' = "raised"
                     /\ UNCHANGED <<calls_data, stats, session_ids>>
                ELSE /\ pc' = "lookup_json"
                     /\ session_ids' = numbers
                     /\ calls_data' = results
                     /\ stats' = CallLookupResponse(numbers, results)
    /\ UNCHANGED <<calls, duration_minutes, sessions, latest_calls, categories, params,
                   resolved, final_stages, rate, previous, db_pool, pools, tasks, heap, frame>>

NextLookupJson == LookupCallsJson

SpecLookupJson == InitLookupJson /\ [][NextLookupJson]_vars

----------------------------------------------------------------------------
(* campaign_metrics.py: the client category that the dashboard, the category
   time-series and the transfer metrics give one final stage *)

\* get_client_campaign's counting loop: the category the call is counted
\* under, None when it is skipped.
DashboardCategory(call) ==
    IF ~TruthyStr(call.category_name) THEN None
    ELSE IF SkipEmpty(resolve_client_category(call.category_name[1], call)) THEN None
    ELSE Some(resolve_client_category(call.category_name[1], call))

\* get_category_timeseries' distribution loop: the category the call is
\* counted under, None when it is counted nowhere: its category is skipped,
\* no interval holds its timestamp, or its combined category is no key of
\* the interval's categories.
TimeseriesCategory(call, p) ==
    IF /\ TimeseriesMapped(call)
       /\ IntervalOf(call.timestamp,
                     Intervals(p.start_dt, p.end_dt, timedelta(p.interval_minutes))) # 0
       /\ CLIENT_CATEGORY_MAPPING[OrUnknown(call.category_name)]
              \in CategoryInfoNames(p.db_categories)
    THEN Some(CLIENT_CATEGORY_MAPPING[OrUnknown(call.category_name)])
    ELSE None

\* original_category = call['category_name'] or ''
OrEmpty(category_name) == IF TruthyStr(category_name) THEN category_name[1] ELSE ""

\* get_transfer_metrics: combined_category of the call.
TransferMetricsCategory(call) ==
    Some(DictGet(CLIENT_CATEGORY_MAPPING, OrEmpty(call.category_name),
                 OrEmpty(call.category_name)))

\* The three endpoints on one final stage; session_ids lists the endpoints
\* that have answered.
InitEndpoints ==
    /\ pc = "start"
    /\ calls = << >>
    /\ duration_minutes = DashboardWindowMinutes
    /\ sessions = << >>
    /\ latest_calls \in {<<[id |-> 1, category_name |-> c, transferred |-> t,
                             timestamp |-> ts]>> :
                            c \in {None} \cup {Some(name) : name \in RawCategoryNames},
                            t \in OptionalBooleans, ts \in RowTimes}
    /\ calls_data = << >>
    /\ categories = << >>
    /\ params \in TimeseriesParams
    /\ resolved = None
    /\ session_ids = << >>
    /\ final_stages = << >>
    /\ stats = [dashboard |-> None, timeseries |-> None, transfer_metrics |-> None]
    /\ rate = None
    /\ previous = None
    /\ db_pool = None
    /\ pools = << >>
    /\ tasks = << >>
    /\ heap = << >>
    /\ frame = << >>

\* get_client_campaign on the page that holds the record: it raises, and
\* gives no category, when the record is listed and its transferred is NULL.
EndpointDashboard ==
    /\ "dashboard" \notin Range(session_ids)
    /\ session_ids' = Append(session_ids, "dashboard")
    /\ IF ClientCallRecordsRaise(latest_calls)
       THEN /\ pc' = "raised"
            /\ UNCHANGED stats
       ELSE /\ pc' = "endpoint"
            /\ stats' = [stats EXCEPT !.dashboard = DashboardCategory(latest_calls[1])]
    /\ UNCHANGED <<calls, duration_minutes, sessions, latest_calls, calls_data, categories,
                   params, resolved, final_stages, rate, previous, db_pool, pools, tasks, heap, frame>>

\* get_category_timeseries
EndpointTimeseries ==
    /\ "timeseries" \notin Range(session_ids)
    /\ pc' = "endpoint"
    /\ session_ids' = Append(session_ids, "timeseries")
    /\ stats' = [stats EXCEPT !.timeseries = TimeseriesCategory(latest_calls[1], params)]
    /\ UNCHANGED <<calls, duration_minutes, sessions, latest_calls, calls_data, categories,
                   params, resolved, final_stages, rate, previous, db_pool, pools, tasks, heap, frame>>

\* get_transfer_metrics
EndpointTransferMetrics ==
    /\ "transfer_metrics" \notin Range(session_ids)
    /\ pc' = "endpoint"
    /\ session_ids' = Append(session_ids, "transfer_metrics")
    /\ stats' = [stats EXCEPT !.transfer_metrics = TransferMetricsCategory(latest_calls[1])]
    /\ UNCHANGED <<calls, duration_minutes, sessions, latest_calls, calls_data, categories,
                   params, resolved, final_stages, rate, previous, db_pool, pools, tasks, heap, frame>>

NextEndpoints == EndpointDashboard \/ EndpointTimeseries \/ EndpointTransferMetrics

SpecEndpoints == InitEndpoints /\ [][NextEndpoints]_vars

----------------------------------------------------------------------------
(* stats.py, stats/voice_stats.py: the placeholders and the arguments of the
   statistics queries.  A clause is the placeholder it uses and the Python
   variable it was built for; an argument is the variable it holds. *)

\* datetime.strptime(text, '%Y-%m-%d') returns; otherwise it raises ValueError.
ParsesAsDate(text) == text \in {"2024-01-01", "2024-01-31"}

\* build_date_filter(start_date, end_date, start_time, end_time), without
\* times: where_clauses, params, param_count.
build_date_filter(start_date, end_date) ==
    LET with_start == start_date # "" /\ ParsesAsDate(start_date)
        with_end == end_date # "" /\ ParsesAsDate(end_date)
        start_count == IF with_start THEN 1 ELSE 0
        param_count == IF with_end THEN start_count + 1 ELSE start_count
    IN  [where_clauses |->
             (IF with_start THEN <<[placeholder |-> 1, value |-> "start_dt"]>> ELSE << >>)
             \o (IF with_end THEN <<[placeholder |-> param_count, value |-> "end_dt"]>>
                 ELSE << >>),
         params |-> (IF with_start THEN <<"start_dt">> ELSE << >>)
                    \o (IF with_end THEN <<"end_dt">> ELSE << >>),
         param_count |-> param_count]

\* if client_id: of Optional[int]
TruthyInt(x) == x # None /\ x[1] # 0

\* campaign_where_parts, campaign_params for the placeholder current_param
CampaignFilter(client_id, current_param) ==
    IF TruthyInt(client_id)
    THEN [where_parts |-> <<[placeholder |-> current_param, value |-> "client_id"]>>,
          params |-> <<"client_id">>]
    ELSE [where_parts |-> << >>, params |-> << >>]

\* all_params = campaign_params + date_params
CampaignParamsFirst(campaign_params, date_params) == campaign_params \o date_params

\* The query and the arguments of the handlers that number the date clauses
\* from $1 and the client clause behind them.
StatsQuery(start_date, end_date, client_id) ==
    LET date == build_date_filter(start_date, end_date)
        campaign == CampaignFilter(client_id, date.param_count + 1)
    IN  [clauses |-> campaign.where_parts \o date.where_clauses,
         all_params |-> CampaignParamsFirst(campaign.params, date.params)]

\* for i in range(param_count, 0, -1):
\*     adjusted_clause = adjusted_clause.replace(f'${i}', f'${i+1}')
RECURSIVE AdjustedPlaceholder(_, _)
AdjustedPlaceholder(placeholder, i) ==
    IF i = 0 THEN placeholder
    ELSE AdjustedPlaceholder(IF placeholder = i THEN i + 1 ELSE placeholder, i - 1)

\* The query and the arguments of voice_stats.py's all-campaigns handler:
\* $1 is qualified_originals, the date clauses are moved up by one.
VoiceAllCampaignsQuery(start_date, end_date, client_id) ==
    LET date == build_date_filter(start_date, end_date)
        adjusted_date_where ==
            [k \in 1..Len(date.where_clauses) |->
                [placeholder |-> AdjustedPlaceholder(date.where_clauses[k].placeholder,
                                                     date.param_count),
                 value |-> date.where_clauses[k].value]]
        campaign == CampaignFilter(client_id, date.param_count + 2)
    IN  [clauses |-> <<[placeholder |-> 1, value |-> "qualified_originals"]>>
                     \o campaign.where_parts \o adjusted_date_where,
         all_params |-> <<"qualified_originals">> \o date.params \o campaign.params]

InitQueries ==
    /\ pc = "start"
    /\ calls = << >>
    /\ duration_minutes = DashboardWindowMinutes
    /\ sessions = << >>
    /\ latest_calls = << >>
    /\ calls_data = << >>
    /\ categories = << >>
    /\ params \in [start_date : {"", "2024-01-01", "01/01/2024"},
                   end_date : {"", "2024-01-31", "31/01/2024"},
                   client_id : {None, Some(0), Some(5)}]
    /\ resolved = None
    /\ session_ids = << >>
    /\ final_stages = << >>
    /\ stats = << >>
    /\ rate = None
    /\ previous = None
    /\ db_pool = None
    /\ pools = << >>
    /\ tasks = << >>
    /\ heap = << >>
    /\ frame = << >>

\* stats.py, get_all_campaigns_transfer_stats
StatsAllCampaignsQuery ==
    /\ pc = "start"
    /\ pc' = "stats_all_campaigns"
    /\ calls_data' = StatsQuery(params.start_date, params.end_date, params.client_id).clauses
    /\ stats' = StatsQuery(params.start_date, params.end_date, params.client_id).all_params
    /\ UNCHANGED <<calls, duration_minutes, sessions, latest_calls, categories, params,
                   resolved, session_ids, final_stages, rate, previous, db_pool, pools, tasks, heap, frame>>

\* stats.py, get_overall_voice_stats
StatsOverallVoiceQuery ==
    /\ pc = "start"
    /\ pc' = "stats_overall_voice"
    /\ calls_data' = StatsQuery(params.start_date, params.end_date, params.client_id).clauses
    /\ stats' = StatsQuery(params.start_date, params.end_date, params.client_id).all_params
    /\ UNCHANGED <<calls, duration_minutes, sessions, latest_calls, categories, params,
                   resolved, session_ids, final_stages, rate, previous, db_pool, pools, tasks, heap, frame>>

\* stats/voice_stats.py, get_all_campaigns_transfer_stats
VoiceStatsAllCampaignsQuery ==
    /\ pc = "start"
    /\ pc' = "voice_all_campaigns"
    /\ calls_data' = VoiceAllCampaignsQuery(params.start_date, params.end_date,
                                            params.client_id).clauses
    /\ stats' = VoiceAllCampaignsQuery(params.start_date, params.end_date,
                                       params.client_id).all_params
    /\ UNCHANGED <<calls, duration_minutes, sessions, latest_calls, categories, params,
                   resolved, session_ids, final_stages, rate, previous, db_pool, pools, tasks, heap, frame>>

\* stats/voice_stats.py, get_overall_voice_stats
VoiceStatsOverallVoiceQuery ==
    /\ pc = "start"
    /\ pc' = "voice_overall_voice"
    /\ calls_data' = StatsQuery(params.start_date, params.end_date, params.client_id).clauses
    /\ stats' = StatsQuery(params.start_date, params.end_date, params.client_id).all_params
    /\ UNCHANGED <<calls, duration_minutes, sessions, latest_calls, categories, params,
                   resolved, session_ids, final_stages, rate, previous, db_pool, pools, tasks, heap, frame>>

NextQueries ==
    \/ StatsAllCampaignsQuery
    \/ StatsOverallVoiceQuery
    \/ VoiceStatsAllCampaignsQuery
    \/ VoiceStatsOverallVoiceQuery

SpecQueries == InitQueries /\ [][NextQueries]_vars

----------------------------------------------------------------------------
(* database/db.py: the pool under concurrent coroutines.  A coroutine runs
   without interruption up to its next await; pools are numbered in the order
   of their creation, db_pool holds the number of a pool or None. *)

MaxTasks == 3

\* The pools that were created and not closed.
OpenPools == {p \in DOMAIN pools : ~pools[p].closed}

\* A coroutine before its first step.
NewTask(op) == [op |-> op, at |-> "start", pool |-> 0, open_pools |-> {}]

InitPool ==
    /\ pc = "start"
    /\ calls = << >>
    /\ duration_minutes = DashboardWindowMinutes
    /\ sessions = << >>
    /\ latest_calls = << >>
    /\ calls_data = << >>
    /\ categories = << >>
    /\ params = None
    /\ resolved = None
    /\ session_ids = << >>
    /\ final_stages = << >>
    /\ stats = << >>
    /\ rate = None
    /\ previous = None
    /\ db_pool = None
    /\ pools = << >>
    /\ tasks = << >>
    /\ heap = << >>
    /\ frame = << >>

\* A caller starts init_db_pool(), close_db_pool() or get_db().
StartTask ==
    /\ Len(tasks) < MaxTasks
    /\ \E op \in {"init_db_pool", "close_db_pool", "get_db"} :
          tasks' = Append(tasks, NewTask(op))
    /\ UNCHANGED <<pc, calls, duration_minutes, sessions, latest_calls, calls_data,
                   categories, params, resolved, session_ids, final_stages, stats, rate,
                   previous, db_pool, pools, heap, frame>>

\* init_db_pool up to its await: `if db_pool is None:` then
\* asyncpg.create_pool(...) is awaited, else the coroutine returns.
InitDbPoolCheck ==
    \E t \in DOMAIN tasks :
        /\ tasks[t].op = "init_db_pool"
        /\ tasks[t].at = "start"
        /\ tasks' = [tasks EXCEPT ![t].at = IF db_pool = None THEN "awaiting" ELSE "done"]
        /\ UNCHANGED <<pc, calls, duration_minutes, sessions, latest_calls, calls_data,
                       categories, params, resolved, session_ids, final_stages, stats, rate,
                       previous, db_pool, pools, heap, frame>>

\* init_db_pool behind its await: create_pool has returned a new pool,
\* `db_pool = ...` stores it.
InitDbPoolAssign ==
    \E t \in DOMAIN tasks :
        /\ tasks[t].op = "init_db_pool"
        /\ tasks[t].at = "awaiting"
        /\ pools' = Append(pools, [closed |-> FALSE])
        /\ db_pool' = Some(Len(pools) + 1)
        /\ tasks' = [tasks EXCEPT ![t].at = "done", ![t].pool = Len(pools) + 1]
        /\ UNCHANGED <<pc, calls, duration_minutes, sessions, latest_calls, calls_data,
                       categories, params, resolved, session_ids, final_stages, stats, rate,
                       previous, heap, frame>>

\* close_db_pool up to its await: `if db_pool is not None:` then
\* db_pool.close() of the pool db_pool names now is awaited.
CloseDbPoolCheck ==
    \E t \in DOMAIN tasks :
        /\ tasks[t].op = "close_db_pool"
        /\ tasks[t].at = "start"
        /\ tasks' = IF db_pool # None
                    THEN [tasks EXCEPT ![t].at = "awaiting", ![t].pool = db_pool[1]]
                    ELSE [tasks EXCEPT ![t].at = "done"]
        /\ UNCHANGED <<pc, calls, duration_minutes, sessions, latest_calls, calls_data,
                       categories, params, resolved, session_ids, final_stages, stats, rate,
                       previous, db_pool, pools, heap, frame>>

\* close_db_pool behind its await: the pool is closed, `db_pool = None`.
CloseDbPoolAssign ==
    \E t \in DOMAIN tasks :
        /\ tasks[t].op = "close_db_pool"
        /\ tasks[t].at = "awaiting"
        /\ pools' = [pools EXCEPT ![tasks[t].pool].closed = TRUE]
        /\ db_pool' = None
        /\ tasks' = [tasks EXCEPT ![t].at = "done"]
        /\ UNCHANGED <<pc, calls, duration_minutes, sessions, latest_calls, calls_data,
                       categories, params, resolved, session_ids, final_stages, stats, rate,
                       previous, heap, frame>>

\* get_db: raise RuntimeError when db_pool is None, else return db_pool.
\* open_pools keeps the pools that were open at the return.
GetDb ==
    \E t \in DOMAIN tasks :
        /\ tasks[t].op = "get_db"
        /\ tasks[t].at = "start"
        /\ tasks' = IF db_pool = None
                    THEN [tasks EXCEPT ![t].at = "raised"]
                    ELSE [tasks EXCEPT ![t].at = "returned", ![t].pool = db_pool[1],
                                       ![t].open_pools = OpenPools]
        /\ UNCHANGED <<pc, calls, duration_minutes, sessions, latest_calls, calls_data,
                       categories, params, resolved, session_ids, final_stages, stats, rate,
                       previous, db_pool, pools, heap, frame>>

NextPool ==
    \/ StartTask
    \/ InitDbPoolCheck
    \/ InitDbPoolAssign
    \/ CloseDbPoolCheck
    \/ CloseDbPoolAssign
    \/ GetDb

SpecPool == InitPool /\ [][NextPool]_vars

----------------------------------------------------------------------------
(* Properties of the time-window grouper *)

Grouped == pc = "grouped"

NumSessions == Len(sessions)

\* The index of the session that holds the record with this id.
SessionOf(id) ==
    CHOOSE k \in 1..NumSessions : \E j \in 1..Len(sessions[k]) : sessions[k][j].id = id

\* How many places of the returned sessions hold the record with this id.
Occurrences(id) ==
    Cardinality({p \in (1..NumSessions) \X (1..MaxLen + 1) :
                    /\ p[2] <= Len(sessions[p[1]])
                    /\ sessions[p[1]][p[2]].id = id})

Gap(a, b) == IF a.timestamp <= b.timestamp THEN b.timestamp - a.timestamp
             ELSE a.timestamp - b.timestamp

OneNumberPerSession ==
    \A k \in 1..NumSessions : \A i, j \in 1..Len(sessions[k]) :
        sessions[k][i].number = sessions[k][j].number

ConsecutiveWithinWindow ==
    \A k \in 1..NumSessions : \A i \in 1..Len(sessions[k]) - 1 :
        /\ sessions[k][i].timestamp <= sessions[k][i + 1].timestamp
        /\ sessions[k][i + 1].timestamp - sessions[k][i].timestamp
               <= duration_minutes * TicksPerMinute

\* A session is opened at the record behind place k of the (number,
\* timestamp) order exactly when that record has another number than, or is
\* more than the window after, the record at place k.
OpenedExactlyAtBreaks ==
    LET sorted == SortedCalls(calls) IN
    \A k \in 1..Len(sorted) - 1 :
        (SessionOf(sorted[k + 1].id) # SessionOf(sorted[k].id))
        <=> \/ sorted[k + 1].number # sorted[k].number
            \/ sorted[k + 1].timestamp - sorted[k].timestamp
                   > duration_minutes * TicksPerMinute

\* C1: every session holds records of one number, consecutive records of a
\* session are in ascending timestamp order and at most the window apart, and
\* a new session is opened exactly when the next record in (number,
\* timestamp) order has another number than, or is more than the window
\* after, the record right before it (not the session's first record).
C1_SessionsFollowTheWindow ==
    Grouped => /\ OneNumberPerSession
               /\ ConsecutiveWithinWindow
               /\ OpenedExactlyAtBreaks

\* A session of three records whose last record is more than the window
\* after its first: the gap was measured against the preceding record.
C1_Witness ==
    /\ Grouped
    /\ \E k \in 1..NumSessions :
          /\ Len(sessions[k]) = 3
          /\ sessions[k][3].timestamp - sessions[k][1].timestamp
                 > duration_minutes * TicksPerMinute
    /\ NumSessions >= 1

\* C2: every returned session is non-empty and every input record is in
\* exactly one place of exactly one session; nothing else is returned.
C2_SessionsPartitionTheInput ==
    Grouped => /\ \A k \in 1..NumSessions : Len(sessions[k]) >= 1
               /\ \A i \in 1..Len(calls) : Occurrences(calls[i].id) = 1
               /\ \A k \in 1..NumSessions : \A j \in 1..Len(sessions[k]) :
                      sessions[k][j] \in Range(calls)

C2_Witness ==
    /\ Grouped
    /\ Len(calls) = 3
    /\ NumSessions = 2

\* C3: two records of one number exactly the window apart share a session;
\* two records of one number more than the window apart, with no record of
\* that number strictly between them in time, are in different sessions.
C3_InclusiveBoundary ==
    Grouped =>
        \A a, b \in Range(calls) :
            (a.id # b.id /\ a.number = b.number) =>
                /\ (Gap(a, b) = duration_minutes * TicksPerMinute)
                       => SessionOf(a.id) = SessionOf(b.id)
                /\ (/\ Gap(a, b) > duration_minutes * TicksPerMinute
                    /\ ~\E c \in Range(calls) :
                          /\ c.number = a.number
                          /\ \/ (a.timestamp < c.timestamp /\ c.timestamp < b.timestamp)
                             \/ (b.timestamp < c.timestamp /\ c.timestamp < a.timestamp))
                       => SessionOf(a.id) # SessionOf(b.id)

\* One pair exactly the window apart and one pair one tick more than the
\* window apart, in one input.
C3_Witness ==
    /\ Grouped
    /\ \E a, b, c \in Range(calls) :
          /\ a.number = b.number /\ b.number = c.number
          /\ b.timestamp - a.timestamp = duration_minutes * TicksPerMinute
          /\ c.timestamp - b.timestamp = duration_minutes * TicksPerMinute + 1
          /\ SessionOf(a.id) = SessionOf(b.id)
          /\ SessionOf(b.id) # SessionOf(c.id)

AllSingletons ==
    /\ NumSessions = Len(calls)
    /\ \A k \in 1..NumSessions : Len(sessions[k]) = 1

FarApartOrOtherNumber(a, b) ==
    \/ a.number # b.number
    \/ Gap(a, b) >= (duration_minutes + 1) * TicksPerMinute

\* a and b can stand side by side when the input is ordered by timestamp
\* alone: no record lies strictly between them in time.
ChronologicalNeighbours(a, b) ==
    /\ a.id # b.id
    /\ ~\E c \in Range(calls) :
          \/ (a.timestamp < c.timestamp /\ c.timestamp < b.timestamp)
          \/ (b.timestamp < c.timestamp /\ c.timestamp < a.timestamp)

\* C4 as stated: when every record is window + 1 minutes apart from, or has
\* another number than, each neighbour in the order by timestamp alone, the
\* grouper returns one one-record session per record.
C4_AsStated ==
    Grouped =>
        ((\A a, b \in Range(calls) :
             ChronologicalNeighbours(a, b) => FarApartOrOtherNumber(a, b))
         => AllSingletons)

\* C4, amended: the neighbour is the adjacent record in the grouper's own
\* order, by (number, timestamp).
C4_SingletonsInGroupingOrder ==
    Grouped =>
        LET sorted == SortedCalls(calls) IN
        ((\A k \in 1..Len(sorted) - 1 :
             FarApartOrOtherNumber(sorted[k], sorted[k + 1]))
         => AllSingletons)

\* Three records, two of one number window + 1 minutes apart and one of
\* another number, each in its own session.
C4_Witness ==
    /\ Grouped
    /\ Len(calls) = 3
    /\ AllSingletons
    /\ LET sorted == SortedCalls(calls) IN
          /\ \A k \in 1..2 : FarApartOrOtherNumber(sorted[k], sorted[k + 1])
          /\ \E k \in 1..2 :
                /\ sorted[k].number = sorted[k + 1].number
                /\ Gap(sorted[k], sorted[k + 1]) = (duration_minutes + 1) * TicksPerMinute

----------------------------------------------------------------------------
(* Properties of the final-stage resolver *)

MaxStageOf(session) ==
    CHOOSE m \in {OrZero(session[i].stage) : i \in 1..Len(session)} :
        \A i \in 1..Len(session) : OrZero(session[i].stage) <= m

\* The place of the record with this id in a list.
PlaceOf(id, list) == CHOOSE i \in 1..Len(list) : list[i].id = id

\* C5: the resolver returns a record of the session whose stage (None as 0)
\* is the greatest of the session, and of the records with that stage the
\* one at the last place of the list it was given.
C5_FinalStageIsLastOfMax ==
    pc = "resolved" =>
        /\ Len(latest_calls) = Len(sessions)
        /\ \A k \in 1..Len(sessions) :
              LET session == sessions[k]
                  final == latest_calls[k]
              IN  /\ final \in Range(session)
                  /\ OrZero(final.stage) = MaxStageOf(session)
                  /\ \A i \in 1..Len(session) :
                        OrZero(session[i].stage) = MaxStageOf(session)
                            => i <= PlaceOf(final.id, session)

\* Stages [1, 0, 2, 2], the shape of [3, 1, 5, 5]: the second of the two
\* records tied at the greatest stage is returned.
C5_Witness ==
    /\ pc = "resolved"
    /\ Len(sessions[1]) = 4
    /\ [i \in 1..4 |-> sessions[1][i].stage] = <<Some(1), Some(0), Some(2), Some(2)>>
    /\ latest_calls[1].id = 4

----------------------------------------------------------------------------
(* Properties of the time-window pipelines *)

FinalStagesTaken == pc \in {"export", "client"}

TiedAtMax(session) ==
    {r \in Range(session) : OrZero(r.stage) = MaxStageOf(session)}

\* The final stage the handler returned for session k.
FinalOf(k) == CHOOSE f \in Range(latest_calls) : f \in Range(sessions[k])

OneFinalPerSession ==
    /\ Len(latest_calls) = Len(sessions)
    /\ \A k \in 1..Len(sessions) :
          /\ \E f \in Range(latest_calls) : f \in Range(sessions[k])
          /\ FinalOf(k) \in TiedAtMax(sessions[k])

\* C6 as stated: of the records of a session tied at the greatest stage, the
\* final stage is the one met last in the caller's list (ids number the
\* caller's list from its first record).
C6_AsStated ==
    FinalStagesTaken =>
        /\ OneFinalPerSession
        /\ \A k \in 1..Len(sessions) : \A r \in TiedAtMax(sessions[k]) :
              r.id <= FinalOf(k).id

\* C6, amended: of the tied records the final stage is the last one in the
\* grouper's (number, timestamp) order: the one with the latest timestamp
\* and, of those with that timestamp, the one met last in the caller's list.
C6_TieGoesToLatestTimestamp ==
    FinalStagesTaken =>
        /\ OneFinalPerSession
        /\ \A k \in 1..Len(sessions) : \A r \in TiedAtMax(sessions[k]) :
              \/ r.timestamp < FinalOf(k).timestamp
              \/ (r.timestamp = FinalOf(k).timestamp /\ r.id <= FinalOf(k).id)

\* Two records of one session tied at the greatest stage, the later one
\* first in the caller's list: the later one is the final stage.
C6_Witness ==
    /\ pc = "export"
    /\ Len(calls) = 2
    /\ Len(sessions) = 1
    /\ calls[1].stage = calls[2].stage
    /\ calls[1].timestamp > calls[2].timestamp
    /\ latest_calls = <<calls[1]>>

MinTimestamp(session) ==
    CHOOSE t \in {session[i].timestamp : i \in 1..Len(session)} :
        \A i \in 1..Len(session) : t <= session[i].timestamp

\* C7: first_timestamp of every rendered session is the earliest timestamp
\* of its records and last_timestamp the latest.  Stated on the admin
\* dashboard of campaign_metrics.py, the one of the two that answers.
C7_FirstAndLastAreMinAndMax ==
    pc = "admin_metrics" =>
        \A d \in Range(calls_data) :
            LET session == sessions[SessionOf(d.id)]
            IN  /\ d.first_timestamp = strftime(MinTimestamp(session))
                /\ d.last_timestamp = strftime(MaxTimestamp(session))

----------------------------------------------------------------------------
(* Properties of the session details *)

DetailsBuilt == pc \in {"admin_metrics", "lookup"}

\* The session a detail record was built from.
SessionOfDetail(d) == sessions[SessionOf(d.id)]

\* The record of the session an entry of stages was built from.
RecordOf(entry, session) == session[PlaceOf(entry.id, session)]

TotalIsSessionLength ==
    \A d \in Range(calls_data) : d.total_stages = Len(SessionOfDetail(d))

\* stages holds each record of the session exactly once.
StagesHoldEveryRecord(d) ==
    /\ Len(d.stages) = Len(SessionOfDetail(d))
    /\ \A r \in Range(SessionOfDetail(d)) :
          Cardinality({i \in 1..Len(d.stages) : d.stages[i].id = r.id}) = 1

\* Ascending by stage number, the records without a stage first.
AscendingNullsFirst(d) ==
    \A i, j \in 1..Len(d.stages) :
        i < j =>
            LET a == RecordOf(d.stages[i], SessionOfDetail(d))
                b == RecordOf(d.stages[j], SessionOfDetail(d))
            IN  /\ b.stage = None => a.stage = None
                /\ (a.stage # None /\ b.stage # None) => a.stage[1] <= b.stage[1]

\* C8 as stated: total_stages is the number of records of the session and
\* stages holds every record of the session exactly once, ascending by stage
\* number with the records without a stage first.
C8_AsStated ==
    DetailsBuilt =>
        /\ TotalIsSessionLength
        /\ \A d \in Range(calls_data) :
              /\ StagesHoldEveryRecord(d)
              /\ Len(d.stages) = d.total_stages
              /\ AscendingNullsFirst(d)

----------------------------------------------------------------------------
(* Properties of the client normalizer *)

\* The call the normalizer was given.
NormalizedCall == latest_calls[1]

RawCategory == NormalizedCall.category_name[1]

Overridden ==
    RawCategory \in {"already", "busy"} /\ NormalizedCall.transferred = Some(TRUE)

\* C9: for every raw category and every transferred flag the normalizer
\* returns a name: "Neutral" for a transferred "already" or "busy" (never
\* the name the mapping gives them), otherwise the mapping's name of the raw
\* category when it has one and the raw category itself when it has none.
C9_OverrideBeforeMapping ==
    pc = "normalized" =>
        /\ resolved # None
        /\ Overridden =>
              /\ resolved = Some("Neutral")
              /\ resolved # Some(CLIENT_CATEGORY_MAPPING[RawCategory])
        /\ (~Overridden /\ RawCategory \in DOMAIN CLIENT_CATEGORY_MAPPING) =>
              resolved = Some(CLIENT_CATEGORY_MAPPING[RawCategory])
        /\ (~Overridden /\ RawCategory \notin DOMAIN CLIENT_CATEGORY_MAPPING) =>
              resolved = Some(RawCategory)

\* A transferred "busy" comes out as "Neutral", not as "Call Back".
C9_Witness ==
    /\ pc = "normalized"
    /\ RawCategory = "busy"
    /\ NormalizedCall.transferred = Some(TRUE)
    /\ CLIENT_CATEGORY_MAPPING["busy"] = "Call Back"
    /\ resolved = Some("Neutral")

----------------------------------------------------------------------------
(* Properties of the category counters *)

\* The raw category of the record normalizes to the empty string.
NormalizesToEmpty(call) ==
    /\ call.category_name # None
    /\ DictGet(CLIENT_CATEGORY_MAPPING, call.category_name[1],
               call.category_name[1]) = ""

WithoutEmpty(latest) == SelectSeq(latest, LAMBDA call : ~NormalizesToEmpty(call))

\* The sum of the counts of a list of category entries.
RECURSIVE SumCounts(_)
SumCounts(entries) ==
    IF entries = << >> THEN 0 ELSE Head(entries).count + SumCounts(Tail(entries))

\* C10: a record whose raw category normalizes to the empty string is in no
\* count (the statistics are those of the records without it, and the counts
\* sum to no more than the number of the other records), and no entry of
\* the statistics is named by the empty string.
C10_EmptyCategoryIsExcluded ==
    /\ pc = "client_counts" =>
          /\ \A e \in Range(categories) : e.name # ""
          /\ categories = ClientCategoryCounts(WithoutEmpty(latest_calls))
          /\ SumCounts(categories) <= Len(WithoutEmpty(latest_calls))
    /\ pc = "timeseries" =>
          /\ \A interval \in Range(categories) :
                \A e \in Range(interval.categories) : e.name # ""
          /\ categories = CategoryTimeseries(params, WithoutEmpty(latest_calls))
          /\ \A k \in 1..Len(categories) :
                SumCounts(categories[k].categories) <= Len(WithoutEmpty(latest_calls))

\* A "repeatpitch" record beside a "qualified" one: the statistics are the
\* one entry of the "qualified" record.
C10_Witness ==
    /\ pc = "client_counts"
    /\ Len(latest_calls) = 2
    /\ latest_calls[1].category_name = Some("repeatpitch")
    /\ latest_calls[2].category_name = Some("qualified")
    /\ Len(categories) = 1
    /\ categories[1].name = "Qualified"
    /\ categories[1].count = 1

----------------------------------------------------------------------------
(* Properties of the rate helpers *)

RateComputed == pc \in {"transfer_rate", "qualified_rate", "null_voice_ratio"}

\* The percentage in hundredths is the nearest one to 100 * numerator /
\* denominator: its distance from it is at most half a hundredth.
NearestHundredth(hundredths, numerator, denominator) ==
    /\ 2 * (hundredths * denominator - 10000 * numerator) <= denominator
    /\ 2 * (10000 * numerator - hundredths * denominator) <= denominator

\* C18: each rate helper returns 0.0 when the denominator is 0, otherwise
\* 100 * numerator / denominator rounded to two decimals; (0, 0) gives 0.0,
\* (5, 5) gives 100.0, (1, 3) gives 33.33, and the result lies in [0, 100]
\* whenever 0 <= numerator <= denominator.
C18_RatesAreRoundedPercentages ==
    RateComputed =>
        /\ rate # None
        /\ params.denominator = 0 => rate = Some(0)
        /\ params.denominator # 0 =>
              NearestHundredth(rate[1], params.numerator, params.denominator)
        /\ (params.numerator = 5 /\ params.denominator = 5) => rate = Some(10000)
        /\ (params.numerator = 1 /\ params.denominator = 3) => rate = Some(3333)
        /\ params.numerator <= params.denominator => (0 <= rate[1] /\ rate[1] <= 10000)

\* calculate_qualified_rate(1, 3) returned 33.33.
C18_Witness ==
    /\ pc = "qualified_rate"
    /\ params = [numerator |-> 1, denominator |-> 3]
    /\ rate = Some(3333)

----------------------------------------------------------------------------
(* Properties of the session query *)

\* The session_id the query gave the row with this id.
SessionIdOf(id) ==
    (CHOOSE e \in Range(session_ids) : e.row.id = id).session_id

\* C14: the query gives two rows the same session_id exactly when
\* group_calls_by_session with window 2 puts them in the same session.
C14_SqlSessionsAreGrouperSessions ==
    pc = "both" =>
        /\ Len(session_ids) = Len(calls)
        /\ \A a, b \in Range(calls) :
              SessionIdOf(a.id) = SessionIdOf(b.id) <=> SessionOf(a.id) = SessionOf(b.id)
        /\ Cardinality(SessionIdsOf(session_ids)) = Len(sessions)

\* Three rows of one number, each within two minutes of the one before and
\* the last more than two minutes behind the first: one session for both;
\* and a row the grouper splits off has a session_id of its own.
C14_Witness ==
    /\ pc = "both"
    /\ \E a, b, c \in Range(calls) :
          /\ a.number = b.number /\ b.number = c.number
          /\ a.timestamp < b.timestamp /\ b.timestamp < c.timestamp
          /\ c.timestamp - a.timestamp > timedelta(SqlWindowMinutes)
          /\ SessionIdOf(a.id) = SessionIdOf(c.id)
          /\ SessionOf(a.id) = SessionOf(c.id)

\* The in-process final stage of the session the row with this id is in.
InProcessFinalOf(id) == latest_calls[SessionOf(id)]

\* C15: the row the query keeps for a session is the record the resolver
\* returns for that session.
C15_SqlFinalIsResolverFinal ==
    pc = "both_final" =>
        /\ Len(final_stages) = Len(latest_calls)
        /\ \A k \in 1..Len(final_stages) :
              final_stages[k] = InProcessFinalOf(final_stages[k].id)

----------------------------------------------------------------------------
(* Properties of the voice statistics *)

VoiceStatsComputed ==
    pc \in {"voice_stats_campaigns", "stats_campaigns", "overall_voice_stats"}

\* The final stages that are voiced, transferred and of a raw category the
\* client mapping sends to "Qualified".
QualifiedTransferred ==
    {i \in DOMAIN final_stages :
        /\ final_stages[i].voice_name # None
        /\ final_stages[i].transferred = Some(TRUE)
        /\ final_stages[i].response_category # None
        /\ DictGet(CLIENT_CATEGORY_MAPPING, final_stages[i].response_category[1], "")
               = "Qualified"}

\* C11: in the per-campaign and in the overall voice statistics,
\* qualified_transferred_calls is the number of voiced, transferred final
\* stages whose raw category the client mapping sends to "Qualified", and
\* qualified_transfer_rate is that number as a percentage of the transferred
\* count (0.0 when nothing was transferred).
C11_QualifiedCountFollowsMapping ==
    VoiceStatsComputed =>
        /\ stats.qualified_transferred_calls = Cardinality(QualifiedTransferred)
        /\ IF stats.transferred_calls = 0
           THEN stats.qualified_transfer_rate = 0
           ELSE NearestHundredth(stats.qualified_transfer_rate,
                                 Cardinality(QualifiedTransferred),
                                 stats.transferred_calls)

RECURSIVE SumField(_, _)
SumField(entries, field) ==
    IF entries = << >> THEN 0 ELSE Head(entries)[field] + SumField(Tail(entries), field)

\* C12: total_sessions is null_voice_calls plus the voiced calls; the final
\* stages without a voice are in no per-voice entry (the entries name voices
\* of the table and together count the voiced final stages only, while
\* null_voice_calls counts the others); the per-voice total_calls and
\* transferred_calls sum to the campaign's totals.
C12_VoicedAndNullVoicePartition ==
    VoiceStatsComputed =>
        /\ stats.total_sessions = stats.null_voice_calls + stats.total_calls
        /\ stats.total_sessions = Len(final_stages)
        /\ stats.null_voice_calls =
               Cardinality({i \in DOMAIN final_stages : final_stages[i].voice_name = None})
        /\ \A e \in Range(stats.voice_stats) :
               e.total_calls =
                   Cardinality({i \in DOMAIN final_stages :
                                   final_stages[i].voice_name = Some(e.voice_name)})
        /\ SumField(stats.voice_stats, "total_calls") = stats.total_calls
        /\ SumField(stats.voice_stats, "transferred_calls") = stats.transferred_calls

\* A campaign with a final stage without a voice beside a transferred voiced one.
C12_Witness ==
    /\ VoiceStatsComputed
    /\ stats.null_voice_calls >= 1
    /\ stats.transferred_calls >= 1
    /\ Len(stats.voice_stats) >= 1

----------------------------------------------------------------------------
(* Properties of the category counts with respect to the voice *)

\* The normalized category of final stage i under the handler that ran: the
\* client mapping with its two overrides, or the admin mapping.
NormalizedCategoryOf(i) ==
    LET raw == latest_calls[i].category_name[1]
    IN  IF pc = "campaigns_counts"
        THEN DictGet(ADMIN_CATEGORY_MAPPING, raw, raw)
        ELSE IF raw \in {"already", "busy"} /\ latest_calls[i].transferred = Some(TRUE)
             THEN "Neutral"
             ELSE DictGet(CLIENT_CATEGORY_MAPPING, raw, raw)

\* The final stages with a raw category that normalizes to name.
FinalStagesOfCategory(name) ==
    {i \in DOMAIN latest_calls :
        /\ TruthyStr(latest_calls[i].category_name)
        /\ NormalizedCategoryOf(i) = name}

CategoryCountsComputed == pc \in {"metrics_counts", "campaigns_counts"}

\* C13 as stated: the count of a category is the number of final stages with
\* a voice and that normalized category, transferred_count the number of
\* those that are transferred; a final stage without a voice is counted in
\* no category.
C13_CountsOnlyVoicedFinalStages ==
    CategoryCountsComputed =>
        \A e \in Range(categories) :
            LET voiced == {i \in FinalStagesOfCategory(e.name) :
                              latest_calls[i].voice_name # None}
            IN  /\ e.count = Cardinality(voiced)
                /\ e.transferred_count =
                       Cardinality({i \in voiced : latest_calls[i].transferred = Some(TRUE)})

----------------------------------------------------------------------------
(* Properties of the call lookup's partition of the fetched rows *)

\* The results of the lookup that hold the fetched row of the given id.
ResultsHolding(id) ==
    {k \in DOMAIN calls_data : \E s \in Range(calls_data[k].stages) : s.id = id}

\* The fetched row of the given id.
FetchedRow(id) == CHOOSE c \in Range(calls) : c.id = id

RECURSIVE SumTotalStages(_)
SumTotalStages(results) ==
    IF results = << >> THEN 0
    ELSE Len(Head(results).stages) + SumTotalStages(Tail(results))

\* C16: for every list of fetched rows, after fetch_call_data has run the
\* call_id groups and the one-record sessions of the rows without call_id
\* are exactly the fetched rows: every row is in exactly one result, the
\* results hold as many records as were fetched, the rows of a group share
\* the group's call_id, and a result without call_id holds one row without
\* call_id.
C16_LookupPartitionsFetchedRows ==
    pc \in {"lookup", "raised"} =>
        /\ \A i \in DOMAIN calls : Cardinality(ResultsHolding(calls[i].id)) = 1
        /\ SumTotalStages(calls_data) = Len(calls)
        /\ \A d \in Range(calls_data) :
              /\ \A s \in Range(d.stages) : FetchedRow(s.id).call_id = d.call_id
              /\ d.call_id = None => Len(d.stages) = 1

----------------------------------------------------------------------------
(* Properties of the lookup of the latest stage per number *)

\* The fetched rows of a number: the number was searched for.
RowsOfNumber(number) ==
    {c \in Range(calls) : c.number = number /\ number \in Range(params.numbers)}

FoundNumbers == {number \in Numbers : RowsOfNumber(number) # {}}

\* C17: once the per-number lookup has run, every found number has exactly
\* one result, and its final_response_category and final_decision_transferred
\* are those of a record of the number whose `stage or 0` is the greatest
\* `stage or 0` of the number's records.
C17_FinalIsOfGreatestStage ==
    pc # "start" =>
        \A number \in FoundNumbers :
            /\ Cardinality({k \in DOMAIN calls_data : calls_data[k].number = number}) = 1
            /\ \A d \in Range(calls_data) :
                  d.number = number =>
                      \E c \in RowsOfNumber(number) :
                          /\ \A o \in RowsOfNumber(number) : OrZero(o.stage) <= OrZero(c.stage)
                          /\ d.final_response_category = c.response_category
                          /\ c.transferred = Some(d.final_decision_transferred)

----------------------------------------------------------------------------
(* Properties of the three-record scenario *)

\* The ids of the records of each session, in order.
SessionIdLists == [k \in 1..Len(sessions) |-> [i \in 1..Len(sessions[k]) |-> sessions[k][i].id]]

\* C19: on the three records {555, stage 1, T, not transferred, busy, Ava},
\* {555, stage 2, T+30s, transferred, qualified, Ava}, {555, stage 1, T+10min,
\* not transferred, no category, no voice} with window 2, grouping gives two
\* sessions, the first two records and the third alone; the first session
\* resolves to the stage-2 record and has 2 stages; the categories are
\* exactly Qualified with count 1 and transferred_count 1; null_voice_calls
\* is 1 and null_voice_ratio 50.0.
C19_ThreeRecordScenario ==
    (calls = ScenarioCalls /\ duration_minutes = 2) =>
        /\ pc # "start" => SessionIdLists = <<<<1, 2>>, <<3>>>>
        /\ pc \in {"scenario_resolved", "scenario_aggregated", "scenario_totalled"} =>
               /\ latest_calls[1].id = 2
               /\ latest_calls[1].stage = Some(2)
               /\ Len(sessions[1]) = 2
        /\ pc \in {"scenario_aggregated", "scenario_totalled"} =>
               categories = <<[name |-> "Qualified", count |-> 1, transferred_count |-> 1]>>
        /\ pc = "scenario_totalled" =>
               /\ stats.null_voice_calls = 1
               /\ rate = Some(5000)

\* The scenario's three records have been grouped, resolved, aggregated and
\* run through the query.
C19_Witness ==
    /\ pc = "scenario_totalled"
    /\ calls = ScenarioCalls
    /\ Len(sessions) = 2
    /\ stats.total_sessions = 2

----------------------------------------------------------------------------
(* Properties of the grouper on malformed records *)

\* The records without a stage or without a timestamp.
MalformedRecords ==
    {i \in DOMAIN calls : calls[i].stage = None \/ calls[i].timestamp = None}

\* The session that holds the record of the given id.
MalformedSessionOf(id) ==
    sessions[CHOOSE k \in DOMAIN sessions : \E c \in Range(sessions[k]) : c.id = id]

\* C20: on an input with one malformed record (no stage, or no timestamp),
\* grouping and the selection of the final stage complete without raising,
\* and the record comes first in its ordering: a record without a timestamp
\* is the first of its number's records in the sessions, a record without a
\* stage the first of its session sorted by stage.
C20_MalformedRecordOrdersFirst ==
    (pc # "start" /\ Cardinality(MalformedRecords) = 1) =>
        /\ pc # "raised"
        /\ \A i \in MalformedRecords :
              /\ calls[i].timestamp = None =>
                    \E k \in DOMAIN sessions :
                        /\ sessions[k][1].id = calls[i].id
                        /\ \A j \in 1..k - 1 :
                               \A c \in Range(sessions[j]) : c.number # calls[i].number
              /\ calls[i].stage = None =>
                    SortedByStage(MalformedSessionOf(calls[i].id))[1].id = calls[i].id

----------------------------------------------------------------------------
(* Properties of the pipeline run twice *)

\* The place of a name in the ascending order of strings.
NameIndex(name) == CHOOSE i \in 1..Len(NameOrder) : NameOrder[i] = name

AscendingByName(entries) ==
    \A k \in 1..Len(entries) - 1 :
        NameIndex(entries[k].name) < NameIndex(entries[k + 1].name)

\* C21: the pipeline run a second time on the same list, in the heap the
\* first run left behind, returns the sessions in the same order, the same
\* final stages and the same category entries in the same order as the
\* first run; both runs return what the value-level pipeline gives for the
\* input records alone, and the category entries are in ascending order of
\* their normalized names.
C21_PipelineIsDeterministic ==
    /\ pc \in {"ran_once", "ran_twice"} =>
          /\ AscendingByName(categories)
          /\ sessions = group_calls_by_session(calls, duration_minutes)
          /\ latest_calls = LatestCalls(sessions)
          /\ categories = ClientCategoryCounts(latest_calls)
    /\ pc = "ran_twice" =>
          previous = Some([sessions |-> sessions, latest_calls |-> latest_calls,
                           categories |-> categories])

\* Two sessions of two categories counted twice, the second run with the
\* dictionaries of the first still on the heap.
C21_Witness ==
    /\ pc = "ran_twice"
    /\ Len(sessions) = 2
    /\ Len(categories) = 2
    /\ previous # None
    /\ Len(heap.dicts) = 4
    /\ heap.dicts[1] # << >>

----------------------------------------------------------------------------
(* Properties of the arguments after the calls *)

\* C22: after group_calls_by_session the caller's list object has the
\* length, order and records it had before, and after the selection of the
\* final stages the list of sessions and every session in it are as they
\* were: every list object that was there before the call holds the same
\* call dictionaries in the same order after it, and no call dictionary has
\* changed.
C22_InputsAreLeftUnchanged ==
    pc \in {"frame_grouped", "frame_selected"} =>
        /\ ListValue(heap, frame.calls_list) = calls
        /\ \A a \in 1..Len(previous[1].lists) : heap.lists[a] = previous[1].lists[a]
        /\ heap.records = previous[1].records
        /\ pc = "frame_selected" =>
              SessionsValue(heap, frame.call_sessions) = sessions

\* A list that is not in the grouper's order and a session that is not in
\* stage order, both read by a sort that made a new list object.
C22_Witness ==
    /\ pc = "frame_selected"
    /\ calls # SortedCalls(calls)
    /\ \E k \in DOMAIN sessions : sessions[k] # SortedByStage(sessions[k])
    /\ Len(latest_calls) = Len(sessions)
    /\ Len(heap.lists) > Len(previous[1].lists)

----------------------------------------------------------------------------
(* Properties of the stage filters *)

\* The raw names a filter's categories stand for: those the admin mapping
\* sends to one of them, and the categories that are no combined name.
ExpandedNames(filter) ==
    {raw \in DOMAIN ADMIN_CATEGORY_MAPPING :
        \E k \in DOMAIN filter.categories : ADMIN_CATEGORY_MAPPING[raw] = filter.categories[k]}
    \cup {filter.categories[k] : k \in {j \in DOMAIN filter.categories :
             \A raw \in DOMAIN ADMIN_CATEGORY_MAPPING :
                 ADMIN_CATEGORY_MAPPING[raw] # filter.categories[j]}}

\* The session has a record at the filter's stage with one of its raw names.
SessionHasFilteredStage(session, filter) ==
    \E i \in DOMAIN session :
        /\ (IF session[i].stage = None THEN 0 ELSE session[i].stage[1]) = filter.stage
        /\ session[i].category_name # None
        /\ session[i].category_name[1] \in ExpandedNames(filter)

\* C23: with stage filters, a session of the unfiltered list is kept if and
\* only if for every filter it has a record at the filter's stage (no stage
\* as 0) whose raw category is one the filter's categories expand to through
\* the admin reverse mapping; the kept sessions keep their order.
C23_KeptIffEveryFilterMatches ==
    pc = "stage_filtered" =>
        LET unfiltered == previous[1]
            kept == {k \in DOMAIN unfiltered :
                        \A f \in DOMAIN params.stage_filters :
                            SessionHasFilteredStage(unfiltered[k], params.stage_filters[f])}
        IN  /\ Len(sessions) = Cardinality(kept)
            /\ \A k \in DOMAIN unfiltered :
                   (\E j \in DOMAIN sessions : sessions[j] = unfiltered[k]) <=> k \in kept

\* Two filters on different stages and a session of two records, each record
\* matching one of them: the session is kept.
C23_Witness ==
    /\ pc = "stage_filtered"
    /\ Len(params.stage_filters) = 2
    /\ params.stage_filters[1].stage # params.stage_filters[2].stage
    /\ Len(previous[1]) = 1
    /\ Len(previous[1][1]) = 2
    /\ sessions = previous[1]

----------------------------------------------------------------------------
(* Properties of the pages of the client dashboard *)

\* C24: in the client dashboard every page before the last lists exactly
\* page_size call records, and the records listed over pages 1..total_pages
\* number total_records, also when some final stages normalize to the empty
\* string and are dropped from the listing.
C24_PagesSumToTotalRecords ==
    pc = "client_page" =>
        /\ stats.page < stats.total_pages => Len(calls_data) = stats.page_size
        /\ stats.page = stats.total_pages => previous[1] = stats.total_records

----------------------------------------------------------------------------
(* Properties of the final stage of a looked-up call *)

\* C25: in the call lookup the record that gives final_response_category
\* and final_decision_transferred of a result is the last element of the
\* result's stage-sorted stages list: the max()-based final stage and the
\* sort-based ordering pick the same record, also when several records tie
\* at the maximum stage.
C25_FinalStageIsLastOfStages ==
    pc = "lookup" =>
        \A k \in DOMAIN calls_data :
            calls_data[k].id = calls_data[k].stages[Len(calls_data[k].stages)].id

----------------------------------------------------------------------------
(* Properties of the found and not-found numbers of the call lookup *)

\* C26: in the JSON response of the call lookup numbers_found plus
\* numbers_not_found equals total_numbers_searched, and a searched number is
\* among not_found_numbers exactly when no returned result belongs to it
\* (no result's number has its digits, as the query matches them), also when
\* the stored numbers come in several formats of the same digits.
C26_FoundAndNotFoundPartitionSearched ==
    pc = "lookup_json" =>
        /\ stats.numbers_found + stats.numbers_not_found = stats.total_numbers_searched
        /\ \A num \in Range(session_ids) :
               num \in Range(stats.not_found_numbers)
                   <=> ~\E k \in DOMAIN calls_data :
                           RegexpDigits(calls_data[k].number) = num

----------------------------------------------------------------------------
(* Properties of the intervals of the category time-series *)

\* The counts of all categories of all intervals, summed.
RECURSIVE SumIntervalCounts(_)
SumIntervalCounts(intervals) ==
    IF intervals = << >> THEN 0
    ELSE SumCounts(Head(intervals).categories) + SumIntervalCounts(Tail(intervals))

\* The fetched final stages whose category has a non-empty client mapping.
MappedCalls == {i \in 1..Len(latest_calls) : TimeseriesMapped(latest_calls[i])}

\* Every category of a fetched call is a row of response_categories.
CategoriesAreStored ==
    \A i \in 1..Len(latest_calls) :
        latest_calls[i].category_name # None =>
            latest_calls[i].category_name[1] \in params.db_categories

\* C27: the intervals of the category time-series are contiguous and do not
\* overlap, from start_dt to end_dt, and every fetched final-stage call (its
\* timestamp from start_dt to end_dt, both included) with a non-empty client
\* mapping is counted in exactly one interval: the counts of all intervals
\* sum to the number of such calls.
C27_EveryMappedCallIsCountedOnce ==
    (pc = "timeseries" /\ CategoriesAreStored) =>
        /\ categories # << >>
        /\ categories[1].interval_start = strftime(params.start_dt)
        /\ categories[Len(categories)].interval_end = strftime(params.end_dt)
        /\ \A k \in 1..Len(categories) :
               categories[k].interval_start < categories[k].interval_end
        /\ \A k \in 1..Len(categories) - 1 :
               categories[k].interval_end = categories[k + 1].interval_start
        /\ SumIntervalCounts(categories) = Cardinality(MappedCalls)

----------------------------------------------------------------------------
(* Properties of the client category across the endpoints *)

\* C28: the client dashboard's category counts, the client category
\* time-series and the transfer metrics give a final-stage record the same
\* normalized client category: whenever two of them have given the record a
\* category, it is the same one (each applies the transferred already/busy
\* to Neutral override before the static mapping).
C28_EndpointsAgreeOnCategory ==
    pc = "endpoint" =>
        \A a, b \in {stats.dashboard, stats.timeseries, stats.transfer_metrics} :
            (a # None /\ b # None) => a = b

----------------------------------------------------------------------------
(* Properties of the arguments of the statistics queries *)

\* The greatest placeholder of the clauses, 0 without clauses.
HighestPlaceholder(clauses) ==
    IF clauses = << >> THEN 0
    ELSE CHOOSE p \in {clauses[k].placeholder : k \in 1..Len(clauses)} :
             \A k \in 1..Len(clauses) : clauses[k].placeholder <= p

\* C29: in every voice/transfer statistics endpoint and for every combination
\* of start date, end date and client_id, the argument at position k is the
\* value the clause that uses $k was built for, and the number of arguments
\* is the highest placeholder of the query.
C29_ArgumentsMatchPlaceholders ==
    pc # "start" =>
        /\ \A k \in 1..Len(calls_data) :
               /\ calls_data[k].placeholder \in 1..Len(stats)
               /\ stats[calls_data[k].placeholder] = calls_data[k].value
        /\ Len(stats) = HighestPlaceholder(calls_data)

----------------------------------------------------------------------------
(* Properties of the database pool *)

\* C30: under every interleaving of concurrent init_db_pool, close_db_pool
\* and get_db at most one pool exists that was created and not closed (two
\* overlapping init_db_pool never both create a pool), and get_db either
\* raises RuntimeError or returns the single open pool.
C30_AtMostOneOpenPool ==
    /\ Cardinality(OpenPools) <= 1
    /\ \A t \in DOMAIN tasks :
           (tasks[t].op = "get_db" /\ tasks[t].at = "returned") =>
               tasks[t].open_pools = {tasks[t].pool}

====
